---- MODULE Spec2Model ----
(***************************************************************************)
(* Model of cutr (src/08_cutr/src/lib.rs): the selector parser parse_pos,  *)
(* the extractors, get_args and run.  This first part is the parser.       *)
(*                                                                         *)
(* A Rust &str is modelled as a sequence of characters, each character a   *)
(* one-character TLA+ string.  The character written "U+0663" stands for   *)
(* ARABIC-INDIC DIGIT THREE, a decimal digit of Unicode class Nd that is   *)
(* not an ASCII digit: the regex crate's \d matches it, the integer parser *)
(* of the standard library does not.                                       *)
(*                                                                         *)
(* A usize is modelled at its full width on a 64-bit target.  Its values   *)
(* exceed the integers of the model checker, so a usize is a numeral: the  *)
(* sequence of its decimal digits, most significant first, without leading *)
(* zeros (<<0>> is zero, <<1, 5>> is fifteen).                             *)
(*                                                                         *)
(* A Result is a record: [ok |-> TRUE, val |-> v] for Ok(v) and            *)
(* [ok |-> FALSE, err |-> m] for Err(m), m the message as a sequence of    *)
(* text pieces.  A Range<usize> a..b is the record [start |-> a, end |-> b].*)
(***************************************************************************)
EXTENDS Integers, Sequences, FiniteSets, TLC

\* ------------------------------------------------------------------ bounds
\* Longest selector string, in pieces of InputPieces, fed to parse_pos.
MaxLen == 5

\* ---------------------------------------------------------------- numerals
Zero == <<0>>

RECURSIVE Normalize(_)
Normalize(ds) ==
    IF Len(ds) > 1 /\ Head(ds) = 0 THEN Normalize(Tail(ds)) ELSE ds

BigLess(a, b) ==
    \/ Len(a) < Len(b)
    \/ /\ Len(a) = Len(b)
       /\ \E i \in 1..Len(a) :
             a[i] < b[i] /\ \A j \in 1..(i - 1) : a[j] = b[j]

BigLeq(a, b) == a = b \/ BigLess(a, b)

RECURSIVE BigIncDigits(_)
BigIncDigits(a) ==
    IF a = <<>> THEN <<1>>
    ELSE IF a[Len(a)] < 9
         THEN SubSeq(a, 1, Len(a) - 1) \o <<a[Len(a)] + 1>>
    ELSE BigIncDigits(SubSeq(a, 1, Len(a) - 1)) \o <<0>>

\* a + 1
BigInc(a) == BigIncDigits(a)

RECURSIVE BigDecDigits(_)
BigDecDigits(a) ==
    IF a[Len(a)] > 0
    THEN SubSeq(a, 1, Len(a) - 1) \o <<a[Len(a)] - 1>>
    ELSE BigDecDigits(SubSeq(a, 1, Len(a) - 1)) \o <<9>>

\* a - 1, for a > 0
BigDec(a) == Normalize(BigDecDigits(a))

\* ------------------------------------------------------------------- usize
\* usize::MAX on a 64-bit target: 2^64 - 1 = 18446744073709551615.
UsizeMax == <<1, 8, 4, 4, 6, 7, 4, 4, 0, 7, 3, 7, 0, 9, 5, 5, 1, 6, 1, 5>>

\* n + 1 and n - 1 at the width of the word (they wrap at its ends).
usize_add1(n) == IF n = UsizeMax THEN Zero ELSE BigInc(n)
usize_sub1(n) == IF n = Zero THEN UsizeMax ELSE BigDec(n)

\* ------------------------------------------------------------------ inputs
\* The pieces the bounded selector strings are made of: single characters,
\* and the twenty digits of usize::MAX (with a digit before or after it, a
\* number above usize::MAX).
MaxPiece == "18446744073709551615"

InputPieces == {"0", "1", "2", "+", "-", ",", "a", "U+0663", MaxPiece}

PieceText(p) ==
    IF p = MaxPiece
    THEN <<"1", "8", "4", "4", "6", "7", "4", "4", "0", "7",
           "3", "7", "0", "9", "5", "5", "1", "6", "1", "5">>
    ELSE <<p>>

RECURSIVE Text(_)
Text(pieces) ==
    IF pieces = <<>> THEN <<>>
    ELSE PieceText(Head(pieces)) \o Text(Tail(pieces))

PieceStrings == UNION {[1..n -> InputPieces] : n \in 0..MaxLen}

\* ------------------------------------------------------------------- state
VARIABLES
    range,          \* the selector string handed to parse_pos
    pc,             \* "call": parse_pos not yet run; "done": it has returned
    evaluated,      \* results of the per-token closure, in evaluation order
    result,         \* the value parse_pos returned
    extractor,      \* the extractor called: "chars", "bytes" or "fields"
    unit,           \* its first argument: a line or a record
    positions,      \* its second argument: a slice of ranges
    xpc,            \* "call": the extractor not yet run; "done": returned
    output,         \* the value the extractor returned
    cli,            \* the command line, as clap hands it to get_args
    fs,             \* the file system: file name to content, when it opens
    config,         \* what get_args returned
    rpc,            \* where the program is, from get_args to the end of run
    fi,             \* run: the place in config.files of the current file
    li,             \* run: the place in the open file of the next item
    calls,          \* run: the extractor calls made so far
    stdout,         \* what was written to standard output
    stderr,         \* what was written to standard error
    run_result,     \* what run returned
    shared,         \* workers: the PositionList all the workers borrow
    worker,         \* workers: each worker's call of an extractor
    tail_val,       \* tailr: the text handed to parse_num
    tail_total,     \* tailr: the number of lines (or bytes) of the file
    take,           \* tailr: what parse_num returned
    start_index,    \* tailr: what get_start_index returned
    tpc,            \* tailr: "parse", "index" or "done"
    content1,       \* commr: the lines of file 1
    content2,       \* commr: the lines of file 2
    next1,          \* commr: how many lines lines1 has yielded
    next2,          \* commr: how many lines lines2 has yielded
    line1,          \* commr: the current line of file 1, an Option
    line2,          \* commr: the current line of file 2, an Option
    comm_config,    \* commr: the Config run is called with
    emitted,        \* commr: what print was called with, in order
    printed,        \* commr: the lines written to standard output
    cpc             \* commr: "open", "loop" or "done"

parse_vars == <<range, pc, evaluated, result>>
extract_vars == <<extractor, unit, positions, xpc, output>>
run_vars == <<cli, fs, config, rpc, fi, li, calls, stdout, stderr, run_result>>
worker_vars == <<shared, worker>>
tail_vars == <<tail_val, tail_total, take, start_index, tpc>>
comm_vars ==
    <<content1, content2, next1, next2, line1, line2, comm_config, emitted, printed,
      cpc>>
aux_vars == <<worker_vars, tail_vars, comm_vars>>
vars == <<parse_vars, extract_vars, run_vars, aux_vars>>

\* The variables of an operation that a specification does not exercise.
ParseIdle == range = <<>> /\ pc = "idle" /\ evaluated = <<>> /\ result = <<>>
ExtractIdle ==
    /\ extractor = "none" /\ unit = <<>> /\ positions = <<>>
    /\ xpc = "idle" /\ output = <<>>
WorkerIdle == shared = <<>> /\ worker = <<>>
TailIdle ==
    /\ tail_val = <<>> /\ tail_total = <<>> /\ take = <<>>
    /\ start_index = <<>> /\ tpc = "idle"
CommIdle ==
    /\ content1 = <<>> /\ content2 = <<>> /\ next1 = 0 /\ next2 = 0
    /\ line1 = <<>> /\ line2 = <<>> /\ comm_config = <<>>
    /\ emitted = <<>> /\ printed = <<>> /\ cpc = "idle"
RunIdle ==
    /\ cli = <<>> /\ fs = <<>> /\ config = <<>> /\ rpc = "idle"
    /\ fi = 0 /\ li = 0 /\ calls = <<>> /\ stdout = <<>> /\ stderr = <<>>
    /\ run_result = <<>>

Ok(v) == [ok |-> TRUE, val |-> v]
Err(m) == [ok |-> FALSE, err |-> m]
Rng(a, b) == [start |-> a, end |-> b]

\* --------------------------------------------------------- text primitives
IsAsciiDigit(c) == c \in {"0", "1", "2", "3", "4", "5", "6", "7", "8", "9"}

\* \d of the regex crate (Unicode mode is its default): class Nd.
IsRegexDigit(c) == IsAsciiDigit(c) \/ c = "U+0663"

DigitVal(c) ==
    CASE c = "0" -> 0 [] c = "1" -> 1 [] c = "2" -> 2 [] c = "3" -> 3
      [] c = "4" -> 4 [] c = "5" -> 5 [] c = "6" -> 6 [] c = "7" -> 7
      [] c = "8" -> 8 [] c = "9" -> 9

DigitChar(d) ==
    CASE d = 0 -> "0" [] d = 1 -> "1" [] d = 2 -> "2" [] d = 3 -> "3"
      [] d = 4 -> "4" [] d = 5 -> "5" [] d = 6 -> "6" [] d = 7 -> "7"
      [] d = 8 -> "8" [] d = 9 -> "9"

\* format!("{}", n) of a usize: its decimal digits, no leading zeros.
display_usize(n) == [i \in 1..Len(n) |-> DigitChar(n[i])]

\* ----------------------------------------------------------- parse_index
\* A digit loop that refuses a zero written before other digits.
checked_digits_no_leading_zero(digits) ==
    IF \E i \in 1..Len(digits) : ~IsAsciiDigit(digits[i])
    THEN Err("InvalidDigit")
    ELSE IF Len(digits) > 1 /\ digits[1] = "0" THEN Err("InvalidDigit")
    ELSE LET n == Normalize([i \in 1..Len(digits) |-> DigitVal(digits[i])])
         IN  IF BigLess(UsizeMax, n) THEN Err("PosOverflow") ELSE Ok(n)

\* A digit loop that stops at usize::MAX instead of failing above it.
checked_digits_saturating(digits) ==
    IF \E i \in 1..Len(digits) : ~IsAsciiDigit(digits[i])
    THEN Err("InvalidDigit")
    ELSE LET n == Normalize([i \in 1..Len(digits) |-> DigitVal(digits[i])])
         IN  IF BigLess(UsizeMax, n) THEN Ok(UsizeMax) ELSE Ok(n)

\* The digit loop of usize::from_str_radix(_, 10): every byte must be an
\* ASCII digit, and the checked acc * 10 + digit overflows exactly when the
\* number read exceeds usize::MAX.
checked_digits(digits) ==
    IF \E i \in 1..Len(digits) : ~IsAsciiDigit(digits[i])
    THEN Err("InvalidDigit")
    ELSE LET n == Normalize([i \in 1..Len(digits) |-> DigitVal(digits[i])])
         IN  IF BigLess(UsizeMax, n) THEN Err("PosOverflow") ELSE Ok(n)

\* Mutant of parse_nonzero_usize: the input parsed as a plain usize, zero
\* let through.
parse_nonzero_usize_allows_zero(input) ==
    IF input = <<>> THEN Err("Empty")
    ELSE IF input = <<"+">> \/ input = <<"-">> THEN Err("InvalidDigit")
    ELSE LET digits == IF Head(input) = "+" THEN Tail(input) ELSE input
         IN  checked_digits(digits)

\* input.parse::<NonZeroUsize>(): usize::from_str, then zero is refused.
\* usize::from_str refuses "", "+" and "-", and skips one leading '+'.
parse_nonzero_usize(input) ==
    IF input = <<>> THEN Err("Empty")
    ELSE IF input = <<"+">> \/ input = <<"-">> THEN Err("InvalidDigit")
    ELSE LET digits == IF Head(input) = "+" THEN Tail(input) ELSE input
             n == checked_digits(digits)
         IN  IF ~n.ok THEN n
             ELSE IF n.val = Zero THEN Err("Zero")
             ELSE n

value_error(input) == <<"illegal list value: \"">> \o input \o <<"\"">>

\* Mutant of parse_index: the starts_with('+') test left out.
parse_index_allows_plus(input) ==
    LET n == parse_nonzero_usize(input)
    IN  IF n.ok THEN Ok(usize_sub1(n.val)) ELSE Err(value_error(input))

parse_index(input) ==
    IF input # <<>> /\ Head(input) = "+"
    THEN Err(value_error(input))
    ELSE LET n == parse_nonzero_usize(input)
         IN  IF n.ok THEN Ok(usize_sub1(n.val)) ELSE Err(value_error(input))

\* ------------------------------------------------------------- parse_pos
\* range_re = ^(\d+)-(\d+)$ : the whole token is one or more \d, one '-',
\* one or more \d.  \d never matches '-', so the split is unique.
range_re_captures(val) ==
    LET dashes == {i \in 1..Len(val) : val[i] = "-"}
    IN  IF /\ Cardinality(dashes) = 1
           /\ \A i \in (1..Len(val)) \ dashes : IsRegexDigit(val[i])
           /\ 1 \notin dashes
           /\ Len(val) \notin dashes
        THEN LET d == CHOOSE i \in dashes : TRUE
             IN  Ok(<<SubSeq(val, 1, d - 1), SubSeq(val, d + 1, Len(val))>>)
        ELSE Err("no match")

\* Mutant of range_order_error: the zero-based values shown.
range_order_error_zero_based(n1, n2) ==
    <<"First number in range (">> \o display_usize(n1)
        \o <<") must be lower than second number (">>
        \o display_usize(n2) \o <<")">>

range_order_error(n1, n2) ==
    <<"First number in range (">> \o display_usize(usize_add1(n1))
        \o <<") must be lower than second number (">>
        \o display_usize(usize_add1(n2)) \o <<")">>

\* Mutant of parse_range: the range built as n1..n2, its end not moved past
\* the last index.
parse_range_exclusive_end(captures) ==
    LET n1 == parse_index(captures[1])
        n2 == parse_index(captures[2])
    IN  IF ~n1.ok THEN Err(n1.err)
        ELSE IF ~n2.ok THEN Err(n2.err)
        ELSE IF ~BigLess(n1.val, n2.val)
             THEN Err(range_order_error(n1.val, n2.val))
        ELSE Ok(Rng(n1.val, n2.val))

\* Mutant of parse_range: the order test as n1 > n2, so N-N passes.
parse_range_allows_equal(captures) ==
    LET n1 == parse_index(captures[1])
        n2 == parse_index(captures[2])
    IN  IF ~n1.ok THEN Err(n1.err)
        ELSE IF ~n2.ok THEN Err(n2.err)
        ELSE IF BigLess(n2.val, n1.val)
             THEN Err(range_order_error(n1.val, n2.val))
        ELSE Ok(Rng(n1.val, usize_add1(n2.val)))

\* Mutant of parse_range: no order test.
parse_range_unordered(captures) ==
    LET n1 == parse_index(captures[1])
        n2 == parse_index(captures[2])
    IN  IF ~n1.ok THEN Err(n1.err)
        ELSE IF ~n2.ok THEN Err(n2.err)
        ELSE Ok(Rng(n1.val, usize_add1(n2.val)))

\* Mutant of parse_range: the second capture through parse_index first.
parse_range_second_first(captures) ==
    LET n1 == parse_index(captures[1])
        n2 == parse_index(captures[2])
    IN  IF ~n2.ok THEN Err(n2.err)
        ELSE IF ~n1.ok THEN Err(n1.err)
        ELSE IF ~BigLess(n1.val, n2.val)
             THEN Err(range_order_error(n1.val, n2.val))
        ELSE Ok(Rng(n1.val, usize_add1(n2.val)))

\* The and_then closure: both captures through parse_index, then the order.
parse_range(captures) ==
    LET n1 == parse_index(captures[1])
        n2 == parse_index(captures[2])
    IN  IF ~n1.ok THEN Err(n1.err)
        ELSE IF ~n2.ok THEN Err(n2.err)
        ELSE IF ~BigLess(n1.val, n2.val)
             THEN Err(range_order_error(n1.val, n2.val))
        ELSE Ok(Rng(n1.val, usize_add1(n2.val)))

\* The closure mapped over the tokens.
parse_token(val) ==
    LET single == parse_index(val)
    IN  IF single.ok THEN Ok(Rng(single.val, usize_add1(single.val)))
        ELSE LET captures == range_re_captures(val)
             IN  IF ~captures.ok THEN Err(single.err)
                 ELSE parse_range(captures.val)

\* Mutant of split_comma: the empty pieces dropped.
RECURSIVE split_comma_drops_empty(_)
split_comma_drops_empty(s) ==
    LET commas == {i \in 1..Len(s) : s[i] = ","}
    IN  IF commas = {} THEN (IF s = <<>> THEN <<>> ELSE <<s>>)
        ELSE LET c == CHOOSE i \in commas : \A j \in commas : i <= j
                 rest == split_comma_drops_empty(SubSeq(s, c + 1, Len(s)))
             IN  IF c = 1 THEN rest ELSE <<SubSeq(s, 1, c - 1)>> \o rest

\* str::split(','): the pieces between the commas, empty pieces included.
RECURSIVE split_comma(_)
split_comma(s) ==
    LET commas == {i \in 1..Len(s) : s[i] = ","}
    IN  IF commas = {} THEN <<s>>
        ELSE LET c == CHOOSE i \in commas : \A j \in commas : i <= j
             IN  <<SubSeq(s, 1, c - 1)>> \o split_comma(SubSeq(s, c + 1, Len(s)))

\* Mutant of map_until_err: a failure is passed over while a later token
\* fails too, so the failure kept is the last one.
RECURSIVE map_until_err_keeps_last(_)
map_until_err_keeps_last(tokens) ==
    IF tokens = <<>> THEN <<>>
    ELSE LET r == parse_token(Head(tokens))
             rest == map_until_err_keeps_last(Tail(tokens))
         IN  IF r.ok THEN <<r>> \o rest
             ELSE IF \E i \in DOMAIN rest : ~rest[i].ok THEN rest
             ELSE <<r>>

\* The closure results the collect pulls: it stops after the first Err.
RECURSIVE map_until_err(_)
map_until_err(tokens) ==
    IF tokens = <<>> THEN <<>>
    ELSE LET r == parse_token(Head(tokens))
         IN  IF r.ok THEN <<r>> \o map_until_err(Tail(tokens)) ELSE <<r>>

RECURSIVE InsertByStart(_, _)
InsertByStart(r, sorted) ==
    IF sorted = <<>> THEN <<r>>
    ELSE IF BigLeq(r.start, Head(sorted).start) THEN <<r>> \o sorted
    ELSE <<Head(sorted)>> \o InsertByStart(r, Tail(sorted))

RECURSIVE SortByStart(_)
SortByStart(rs) ==
    IF rs = <<>> THEN <<>>
    ELSE InsertByStart(Head(rs), SortByStart(Tail(rs)))

\* Mutant of collect_result: the ranges returned sorted by their start.
collect_result_sorted(results) ==
    IF \E i \in DOMAIN results : ~results[i].ok
    THEN Err(results[CHOOSE i \in DOMAIN results :
                        ~results[i].ok /\ \A j \in 1..(i - 1) : results[j].ok].err)
    ELSE Ok(SortByStart([i \in DOMAIN results |-> results[i].val]))

\* Mutant of collect_result: the failed tokens skipped, the others kept.
collect_result_skips_errors(results) ==
    LET kept == SelectSeq(results, LAMBDA r : r.ok)
    IN  Ok([i \in DOMAIN kept |-> kept[i].val])

\* collect::<Result<Vec<_>, _>>(): the first Err, else the Ok values in order.
collect_result(results) ==
    IF \E i \in DOMAIN results : ~results[i].ok
    THEN Err(results[CHOOSE i \in DOMAIN results :
                        ~results[i].ok /\ \A j \in 1..(i - 1) : results[j].ok].err)
    ELSE Ok([i \in DOMAIN results |-> results[i].val])

\* ----------------------------------------------------------- specification
Init ==
    /\ \E ps \in PieceStrings : range = Text(ps)
    /\ pc = "call"
    /\ evaluated = <<>>
    /\ result = Err(<<>>)
    /\ ExtractIdle
    /\ RunIdle
    /\ WorkerIdle /\ TailIdle /\ CommIdle

\* parse_pos: range.split(',').map(closure).collect()
ParsePos ==
    /\ pc = "call"
    /\ evaluated' = map_until_err(split_comma(range))
    /\ result' = collect_result(evaluated')
    /\ pc' = "done"
    /\ UNCHANGED <<range, extract_vars, run_vars, aux_vars>>

Next == ParsePos

Spec == Init /\ [][Next]_vars

\* ---------------------------------------------------- the selector grammar
\* What the specification says of a selector string, read off the text of the
\* string itself: TOKEN(,TOKEN)*, TOKEN = N | N-M.
Commas(s) == {i \in 1..Len(s) : s[i] = ","}

\* The positions of the commas, in ascending order.
CommaSeq(s) ==
    LET cs == Commas(s)
    IN  [k \in 1..Cardinality(cs) |->
            CHOOSE i \in cs : Cardinality({j \in cs : j < i}) = k - 1]

\* The comma-separated tokens of s, as written, in the order written.
Tokens(s) ==
    LET c == CommaSeq(s)
        n == Len(c) + 1
    IN  [k \in 1..n |->
            SubSeq(s, IF k = 1 THEN 1 ELSE c[k - 1] + 1,
                      IF k = n THEN Len(s) ELSE c[k] - 1)]

\* A decimal integer without a sign prefix.
IsNumber(t) == t # <<>> /\ \A i \in 1..Len(t) : IsAsciiDigit(t[i])

\* The number a decimal integer denotes, as a numeral.
Value(t) == Normalize([i \in 1..Len(t) |-> DigitVal(t[i])])

IsPositive(t) == IsNumber(t) /\ Value(t) # Zero

\* Two decimal integers joined by one '-'.
IsRangeShape(t) ==
    \E d \in 2..(Len(t) - 1) :
        /\ t[d] = "-"
        /\ IsNumber(SubSeq(t, 1, d - 1))
        /\ IsNumber(SubSeq(t, d + 1, Len(t)))

DashAt(t) == CHOOSE d \in 1..Len(t) : t[d] = "-"
FirstOf(t) == SubSeq(t, 1, DashAt(t) - 1)
SecondOf(t) == SubSeq(t, DashAt(t) + 1, Len(t))

\* TOKEN of the grammar: N, or N-M with N < M, N and M positive.
GrammarToken(t) ==
    \/ IsPositive(t)
    \/ /\ IsRangeShape(t)
       /\ IsPositive(FirstOf(t))
       /\ BigLess(Value(FirstOf(t)), Value(SecondOf(t)))

\* TOKEN of the grammar whose numbers fit the machine word.
GrammarTokenInWord(t) ==
    \/ IsPositive(t) /\ BigLeq(Value(t), UsizeMax)
    \/ /\ IsRangeShape(t)
       /\ IsPositive(FirstOf(t))
       /\ BigLess(Value(FirstOf(t)), Value(SecondOf(t)))
       /\ BigLeq(Value(SecondOf(t)), UsizeMax)

\* The range a token stands for: N gives (N-1)..N, N-M gives (N-1)..M.
\* A token that stands for no range gives NoRange.
NoRange == Rng(<<>>, <<>>)

Compile(t) ==
    IF IsPositive(t) THEN Rng(BigDec(Value(t)), Value(t))
    ELSE IF IsRangeShape(t) /\ IsPositive(FirstOf(t))
         THEN Rng(BigDec(Value(FirstOf(t))), Value(SecondOf(t)))
    ELSE NoRange

IsToken(t) == IsNumber(t) \/ IsRangeShape(t)

Returned == pc = "done"

Accepted == pc = "done" /\ result.ok

Rejected == pc = "done" /\ ~result.ok

\* ---------------------------------------------------------------- claims

\* C1: for every accepted selector string each token is compiled by value:
\* a single token N yields (N-1)..N, a range token N-M yields (N-1)..M, and
\* no other range value is produced.
C1_TokensCompiledByValue ==
    Accepted =>
        LET toks == Tokens(range)
            compiled == [i \in DOMAIN toks |-> Compile(toks[i])]
        IN  /\ Len(evaluated) = Len(toks)
            /\ \A i \in DOMAIN toks :
                  IsToken(toks[i]) /\ evaluated[i] = Ok(compiled[i])
            /\ \A j \in DOMAIN result.val :
                  \E i \in DOMAIN toks : result.val[j] = compiled[i]

C1_Witness ==
    /\ Accepted
    /\ LET toks == Tokens(range)
       IN  /\ \E i \in DOMAIN toks :
                 IsNumber(toks[i]) /\ evaluated[i].val.end = Value(toks[i])
           /\ \E i \in DOMAIN toks :
                 /\ IsRangeShape(toks[i])
                 /\ evaluated[i].val.end = Value(SecondOf(toks[i]))

\* C2: an accepted selector string of k tokens gives exactly k ranges, the
\* i-th range being the compilation of the i-th token: the list is neither
\* sorted nor deduplicated nor merged.
C2_OrderPreserved ==
    Accepted =>
        LET toks == Tokens(range)
        IN  /\ Len(result.val) = Len(toks)
            /\ \A i \in DOMAIN toks : result.val[i] = Compile(toks[i])

C2_Witness ==
    /\ Accepted
    /\ Len(result.val) = 3
    /\ BigLess(result.val[2].start, result.val[1].start)
    /\ result.val[3] = result.val[1]

\* C3 as written: parse_pos succeeds exactly when every token is a TOKEN of
\* the grammar, N and M any positive decimal integers.
C3_AcceptsExactlyGrammar ==
    Returned =>
        LET toks == Tokens(range)
        IN  result.ok <=> \A i \in DOMAIN toks : GrammarToken(toks[i])

\* C3, amended: parse_pos succeeds exactly when every token is a TOKEN of
\* the grammar whose numbers do not exceed the largest machine word
\* (usize::MAX); every other string is rejected.
C3_AcceptsGrammarInWord ==
    Returned =>
        LET toks == Tokens(range)
        IN  result.ok <=> \A i \in DOMAIN toks : GrammarTokenInWord(toks[i])

C3_Witness ==
    /\ Rejected
    /\ range = <<"1", "-", "1", "-", "1">>

\* A usize value: the numeral of a number from 0 to usize::MAX.
IsNumeral(n) ==
    /\ n # <<>>
    /\ \A i \in 1..Len(n) : n[i] \in 0..9
    /\ Normalize(n) = n
    /\ BigLeq(n, UsizeMax)

\* C4: every range of every returned PositionList has start >= 0 and
\* start < end.
C4_RangesNonEmpty ==
    Accepted =>
        \A j \in DOMAIN result.val :
            /\ IsNumeral(result.val[j].start)
            /\ BigLess(result.val[j].start, result.val[j].end)

C4_Witness ==
    /\ Accepted
    /\ \E j \in DOMAIN result.val : result.val[j].start = Zero
    /\ \E j \in DOMAIN result.val :
          BigLess(BigInc(result.val[j].start), result.val[j].end)

\* The text of the two error messages, as the specification words them.
IllegalListValue(x) == <<"illegal list value: \"">> \o x \o <<"\"">>

RECURSIVE StripZeros(_)
StripZeros(t) ==
    IF Len(t) > 1 /\ Head(t) = "0" THEN StripZeros(Tail(t)) ELSE t

\* N and M are shown as decimal numbers: the digits written, less the
\* leading zeros.
RangeOrderMessage(n, m) ==
    <<"First number in range (">> \o StripZeros(n)
        \o <<") must be lower than second number (">>
        \o StripZeros(m) \o <<")">>

IsZero(t) == IsNumber(t) /\ Value(t) = Zero

\* A token whose value is zero: the number 0, or a range with a zero side.
ZeroToken(t) ==
    \/ IsZero(t)
    \/ IsRangeShape(t) /\ (IsZero(FirstOf(t)) \/ IsZero(SecondOf(t)))

ZeroComponents(t) ==
    IF IsNumber(t) THEN {t}
    ELSE {c \in {FirstOf(t), SecondOf(t)} : IsZero(c)}

\* The token the evaluation stopped at is the i-th, and its error is m.
RejectedAt(i, m) ==
    /\ i = Len(evaluated)
    /\ evaluated[i] = Err(m)
    /\ result = Err(m)

\* C5 as written: a token whose value is zero is rejected with
\* illegal list value: "<x>", <x> the zero-bearing component.
C5_ZeroCitesZeroComponent ==
    Returned =>
        LET toks == Tokens(range) IN
        \A i \in DOMAIN evaluated :
            LET t == toks[i]
            IN  ZeroToken(t) =>
                    \E x \in ZeroComponents(t) : RejectedAt(i, IllegalListValue(x))

\* The first component of a range token that is zero or too large for the
\* machine word: the component parse_pos cites.
FirstIllegalComponent(t) ==
    IF IsNumber(t) THEN t
    ELSE IF IsZero(FirstOf(t)) \/ BigLess(UsizeMax, Value(FirstOf(t)))
         THEN FirstOf(t)
    ELSE SecondOf(t)

\* C5, amended: a token whose value is zero is rejected with
\* illegal list value: "<x>", <x> being the zero-bearing component, unless
\* the first component of the range exceeds usize::MAX, which is then the
\* component cited.
C5_ZeroCitesFirstIllegal ==
    Returned =>
        LET toks == Tokens(range) IN
        \A i \in DOMAIN evaluated :
            LET t == toks[i]
            IN  ZeroToken(t) =>
                    RejectedAt(i, IllegalListValue(FirstIllegalComponent(t)))

C5_Witness ==
    /\ Rejected
    /\ Len(evaluated) = 2
    /\ Tokens(range)[2] = <<"1", "-", "0">>
    /\ result.err = <<"illegal list value: \"", "0", "\"">>

\* A '+' sign precedes the digits of a number of the token.
PlusBeforeDigits(t) ==
    \E i \in 1..(Len(t) - 1) : t[i] = "+" /\ IsAsciiDigit(t[i + 1])

\* C6: a token in which a '+' precedes the digits of a number is rejected
\* with illegal list value: "<token>", the whole token; no token holding a
\* '+' is accepted.
C6_PlusRejectedWholeToken ==
    Returned =>
        LET toks == Tokens(range) IN
        \A i \in DOMAIN evaluated :
            LET t == toks[i]
            IN  /\ PlusBeforeDigits(t) => RejectedAt(i, IllegalListValue(t))
                /\ (\E k \in 1..Len(t) : t[k] = "+") => ~evaluated[i].ok

C6_Witness ==
    /\ Rejected
    /\ range = <<"1", "-", "+", "2">>
    /\ result.err = <<"illegal list value: \"", "1", "-", "+", "2", "\"">>

\* C7: a token that is neither a decimal integer nor two decimal integers
\* joined by '-' is rejected with illegal list value: "<token>", the whole
\* token as written.
C7_NonNumericCitesWholeToken ==
    Returned =>
        LET toks == Tokens(range) IN
        \A i \in DOMAIN evaluated :
            LET t == toks[i]
            IN  ~IsToken(t) => RejectedAt(i, IllegalListValue(t))

\* A well-formed range token N-M, N and M positive, N >= M.
ReversedRange(t) ==
    /\ IsRangeShape(t)
    /\ IsPositive(SecondOf(t))
    /\ BigLeq(Value(SecondOf(t)), Value(FirstOf(t)))

\* C8 as written: every well-formed range token N-M with N >= M, both
\* positive, is rejected with First number in range (N) must be lower than
\* second number (M), N and M the 1-based values written.
C8_ReversedRangeMessage ==
    Returned =>
        LET toks == Tokens(range) IN
        \A i \in DOMAIN evaluated :
            LET t == toks[i]
            IN  ReversedRange(t) =>
                    RejectedAt(i, RangeOrderMessage(FirstOf(t), SecondOf(t)))

\* C8, amended: every well-formed range token N-M with N >= M, both
\* positive and N not above usize::MAX, is rejected with that message, N and
\* M the 1-based values written.
C8_ReversedRangeInWordMessage ==
    Returned =>
        LET toks == Tokens(range) IN
        \A i \in DOMAIN evaluated :
            LET t == toks[i]
            IN  (ReversedRange(t) /\ BigLeq(Value(FirstOf(t)), UsizeMax)) =>
                    RejectedAt(i, RangeOrderMessage(FirstOf(t), SecondOf(t)))

C8_Witness ==
    /\ Rejected
    /\ range = <<"0", "2", "-", "1">>
    /\ result.err = <<"First number in range (", "2",
                      ") must be lower than second number (", "1", ")">>

\* A range with a missing side: the token begins or ends with '-'.
MissingSide(t) == t # <<>> /\ (t[1] = "-" \/ t[Len(t)] = "-")

\* C9: a selector string with an empty token (the empty string, a leading,
\* trailing or double comma) or an incomplete range (a bare "-", a missing
\* side) is rejected.
C9_EmptyTokenRejected ==
    Returned =>
        LET toks == Tokens(range)
        IN  (\E i \in DOMAIN toks : toks[i] = <<>> \/ MissingSide(toks[i]))
                => ~result.ok

C9_Witness ==
    /\ Rejected
    /\ Len(range) = 4
    /\ range[Len(range)] = ","
    /\ LET toks == Tokens(range)
       IN  \A i \in 1..(Len(toks) - 1) : GrammarToken(toks[i])

\* C10: if any one token is invalid, parse_pos returns an error and no
\* PositionList at all, whatever valid tokens surround it.
C10_NoPartialResult ==
    Returned =>
        LET toks == Tokens(range)
        IN  (\E i \in DOMAIN toks : ~GrammarToken(toks[i]))
                => (~result.ok /\ "val" \notin DOMAIN result)

C10_Witness ==
    /\ Rejected
    /\ LET toks == Tokens(range)
       IN  /\ Len(toks) = 3
           /\ GrammarToken(toks[1])
           /\ ~GrammarToken(toks[2])
           /\ GrammarToken(toks[3])
    /\ Len(evaluated) = 2 /\ evaluated[1].ok

\* =========================================================== the extractors
\* extract_chars, extract_bytes and extract_fields (lib.rs 201-226).
\*
\* Here a &str or a String is the sequence of the bytes of its UTF-8
\* encoding (a byte is a number in 0..255), a char is the number of its
\* Unicode scalar value, and a StringRecord is the sequence of its fields.
\* The indices that address a unit are small, so a usize index is a natural
\* number and a Range<usize> a..b is the record [start |-> a, end |-> b] of
\* two of them.

\* ------------------------------------------------------------------ bounds
MaxUnit == 2        \* codepoints of a line, fields of a record
MaxEnd == 3         \* largest end of a range
MaxRanges == 2      \* ranges of a PositionList

\* ------------------------------------------------------------------ inputs
\* The characters of the bounded lines, by their UTF-8 encodings:
\* "a" (61), U+00E1 (C3 A1), U+20AC (E2 82 AC).
LineChars == {<<97>>, <<195, 161>>, <<226, 130, 172>>}

RECURSIVE Concat(_)
Concat(seqs) == IF seqs = <<>> THEN <<>> ELSE Head(seqs) \o Concat(Tail(seqs))

Lines == {Concat(cs) : cs \in UNION {[1..n -> LineChars] : n \in 0..MaxUnit}}

RecordFields == {"Captain", "Sham", "12345"}

Records == UNION {[1..n -> RecordFields] : n \in 0..MaxUnit}

\* The ranges parse_pos can return have start < end, and a PositionList has
\* at least one of them.
Ranges == {r \in [start : 0..MaxEnd, end : 0..MaxEnd] : r.start < r.end}

PositionLists == UNION {[1..n -> Ranges] : n \in 1..MaxRanges}

\* ------------------------------------------------------------------- UTF-8
\* str::chars(): the scalar values of a valid UTF-8 string, decoded from the
\* width the first byte announces.
next_code_point(bytes, i) ==
    LET x == bytes[i + 1]
    IN  IF x < 128 THEN [ch |-> x, width |-> 1]
        ELSE IF x < 224
             THEN [ch |-> (x - 192) * 64 + (bytes[i + 2] - 128), width |-> 2]
        ELSE IF x < 240
             THEN [ch |-> (x - 224) * 4096 + (bytes[i + 2] - 128) * 64
                              + (bytes[i + 3] - 128),
                   width |-> 3]
        ELSE [ch |-> (x - 240) * 262144 + (bytes[i + 2] - 128) * 4096
                         + (bytes[i + 3] - 128) * 64 + (bytes[i + 4] - 128),
              width |-> 4]

RECURSIVE chars_from(_, _)
chars_from(bytes, i) ==
    IF i >= Len(bytes) THEN <<>>
    ELSE LET c == next_code_point(bytes, i)
         IN  <<c.ch>> \o chars_from(bytes, i + c.width)

\* A reading of the line that takes every byte for a character.
chars_per_byte(line) == line

chars(line) == chars_from(line, 0)

\* char::encode_utf8.
encode_utf8(ch) ==
    IF ch < 128 THEN <<ch>>
    ELSE IF ch < 2048 THEN <<192 + (ch \div 64), 128 + (ch % 64)>>
    ELSE IF ch < 65536
         THEN <<224 + (ch \div 4096), 128 + ((ch \div 64) % 64),
                128 + (ch % 64)>>
    ELSE <<240 + (ch \div 262144), 128 + ((ch \div 4096) % 64),
           128 + ((ch \div 64) % 64), 128 + (ch % 64)>>

\* collect::<String>() of an iterator of chars.
RECURSIVE collect_string(_)
collect_string(cs) ==
    IF cs = <<>> THEN <<>> ELSE encode_utf8(Head(cs)) \o collect_string(Tail(cs))

\* U+FFFD REPLACEMENT CHARACTER, as String::from_utf8_lossy writes it.
REPLACEMENT == <<239, 191, 189>>

utf8_char_width(b) ==
    IF b < 128 THEN 1
    ELSE IF b \in 194..223 THEN 2
    ELSE IF b \in 224..239 THEN 3
    ELSE IF b \in 240..244 THEN 4
    ELSE 0

safe_get(xs, i) == IF i < Len(xs) THEN xs[i + 1] ELSE 0

is_continuation(b) == b \in 128..191

\* The second byte a three- or four-byte sequence admits after its first.
second_byte_ok(first, second) ==
    \/ first = 224 /\ second \in 160..191
    \/ first \in 225..236 /\ second \in 128..191
    \/ first = 237 /\ second \in 128..159
    \/ first \in 238..239 /\ second \in 128..191
    \/ first = 240 /\ second \in 144..191
    \/ first \in 241..243 /\ second \in 128..191
    \/ first = 244 /\ second \in 128..143

\* A decoder step that never looks past the first byte of a broken sequence.
scan_first_byte_only(xs, i) ==
    LET w == utf8_char_width(xs[i + 1])
        whole == w >= 1 /\ i + w <= Len(xs)
                    /\ \A k \in 1..(w - 1) : is_continuation(xs[i + 1 + k])
    IN  IF whole THEN [len |-> w, valid |-> TRUE]
        ELSE [len |-> 1, valid |-> FALSE]

\* One step of the decoder at offset i: how many bytes it inspects, and
\* whether they are a whole scalar value.  A step that breaks off has
\* inspected the first byte and the bytes that validly continued it.
scan(xs, i) ==
    LET w == utf8_char_width(xs[i + 1])
    IN  IF w = 1 THEN [len |-> 1, valid |-> TRUE]
        ELSE IF w = 2
             THEN IF is_continuation(safe_get(xs, i + 1))
                  THEN [len |-> 2, valid |-> TRUE]
                  ELSE [len |-> 1, valid |-> FALSE]
        ELSE IF w \in {3, 4}
             THEN IF ~second_byte_ok(xs[i + 1], safe_get(xs, i + 1))
                  THEN [len |-> 1, valid |-> FALSE]
                  ELSE IF ~is_continuation(safe_get(xs, i + 2))
                  THEN [len |-> 2, valid |-> FALSE]
                  ELSE IF w = 3 THEN [len |-> 3, valid |-> TRUE]
                  ELSE IF ~is_continuation(safe_get(xs, i + 3))
                  THEN [len |-> 3, valid |-> FALSE]
                  ELSE [len |-> 4, valid |-> TRUE]
        ELSE [len |-> 1, valid |-> FALSE]

RECURSIVE lossy_from(_, _)
lossy_from(xs, i) ==
    IF i >= Len(xs) THEN <<>>
    ELSE LET c == scan(xs, i)
         IN  (IF c.valid THEN SubSeq(xs, i + 1, i + c.len) ELSE REPLACEMENT)
                 \o lossy_from(xs, i + c.len)

\* String::from_utf8_lossy(..).into_owned()
from_utf8_lossy(xs) == lossy_from(xs, 0)

\* ---------------------------------------------------------------- selection
\* A lookup that answers an index past the end with the last element.
range_filter_map_clamped(span, xs) ==
    IF xs = <<>> THEN <<>>
    ELSE [k \in 1..(span.end - span.start) |->
            IF span.start + k <= Len(xs) THEN xs[span.start + k] ELSE xs[Len(xs)]]

\* range.filter_map(|i| xs.get(i)): the range (here span) yields its indices
\* in ascending order, and xs.get(i) is Some(&xs[i]) exactly when i < len.
range_filter_map(span, xs) ==
    LET indices == [k \in 1..(span.end - span.start) |-> span.start + k - 1]
        found == SelectSeq(indices, LAMBDA i : i < Len(xs))
    IN  [k \in DOMAIN found |-> xs[found[k] + 1]]

\* A traversal of the ranges from the last to the first.
RECURSIVE flat_map_last_first(_, _)
flat_map_last_first(pos, xs) ==
    IF pos = <<>> THEN <<>>
    ELSE flat_map_last_first(Tail(pos), xs) \o range_filter_map(Head(pos), xs)

\* A traversal that selects no index twice: an index a range before has
\* yielded is passed over.
RECURSIVE flat_map_skipping(_, _, _)
flat_map_skipping(pos, xs, seen) ==
    IF pos = <<>> THEN <<>>
    ELSE LET span == Head(pos)
             indices == [k \in 1..(span.end - span.start) |-> span.start + k - 1]
             found == SelectSeq(indices, LAMBDA i : i < Len(xs) /\ i \notin seen)
         IN  [k \in DOMAIN found |-> xs[found[k] + 1]]
                 \o flat_map_skipping(Tail(pos), xs,
                                      seen \cup {indices[k] : k \in DOMAIN indices})

flat_map_once(pos, xs) == flat_map_skipping(pos, xs, {})

\* pos.iter().cloned().flat_map(|range| range.filter_map(|i| xs.get(i)))
RECURSIVE flat_map(_, _)
flat_map(pos, xs) ==
    IF pos = <<>> THEN <<>>
    ELSE range_filter_map(Head(pos), xs) \o flat_map(Tail(pos), xs)

extract_chars(line, char_pos) == collect_string(flat_map(char_pos, chars(line)))

\* A selection of bytes whose indices count codepoints.
extract_bytes_by_codepoint(line, byte_pos) ==
    collect_string(flat_map(byte_pos, chars(line)))

extract_bytes(line, byte_pos) == from_utf8_lossy(flat_map(byte_pos, line))

\* A selection that follows the record: each selected field once, in the
\* order of the record.
extract_fields_in_record_order(record, field_pos) ==
    LET kept == SelectSeq([i \in 1..Len(record) |-> i],
                          LAMBDA i : \E k \in DOMAIN field_pos :
                                        /\ field_pos[k].start <= i - 1
                                        /\ i - 1 < field_pos[k].end)
    IN  [k \in DOMAIN kept |-> record[kept[k]]]

extract_fields(record, field_pos) == flat_map(field_pos, record)

\* ----------------------------------------------------------- specification
InitExtract ==
    /\ ParseIdle
    /\ extractor \in {"chars", "bytes", "fields"}
    /\ unit \in (IF extractor = "fields" THEN Records ELSE Lines)
    /\ positions \in PositionLists
    /\ xpc = "call"
    /\ output = <<>>
    /\ RunIdle
    /\ WorkerIdle /\ TailIdle /\ CommIdle

ExtractChars ==
    /\ xpc = "call" /\ extractor = "chars"
    /\ output' = extract_chars(unit, positions)
    /\ xpc' = "done"
    /\ UNCHANGED <<aux_vars, parse_vars, extractor, unit, positions, run_vars>>

ExtractBytes ==
    /\ xpc = "call" /\ extractor = "bytes"
    /\ output' = extract_bytes(unit, positions)
    /\ xpc' = "done"
    /\ UNCHANGED <<aux_vars, parse_vars, extractor, unit, positions, run_vars>>

ExtractFields ==
    /\ xpc = "call" /\ extractor = "fields"
    /\ output' = extract_fields(unit, positions)
    /\ xpc' = "done"
    /\ UNCHANGED <<aux_vars, parse_vars, extractor, unit, positions, run_vars>>

NextExtract == ExtractChars \/ ExtractBytes \/ ExtractFields

SpecExtract == InitExtract /\ [][NextExtract]_vars

\* ------------------------------------------------ what the contract says
\* Well-formed UTF-8 byte sequences (The Unicode Standard, table 3-7): one
\* row per shape, each byte drawn from the set at its place.
WellFormedTable ==
    { <<0..127>>,
      <<194..223, 128..191>>,
      <<{224}, 160..191, 128..191>>,
      <<225..236, 128..191, 128..191>>,
      <<{237}, 128..159, 128..191>>,
      <<238..239, 128..191, 128..191>>,
      <<{240}, 144..191, 128..191, 128..191>>,
      <<241..243, 128..191, 128..191, 128..191>>,
      <<{244}, 128..143, 128..191, 128..191>> }

\* The n bytes of bs from position p are a well-formed sequence.
WellFormedAt(bs, p, n) ==
    \E row \in WellFormedTable :
        Len(row) = n /\ \A i \in 1..n : bs[p + i - 1] \in row[i]

\* The lengths of the well-formed sequences that start at position p of bs
\* (none, or one).
CodepointAt(bs, p) ==
    {n \in 1..4 : p + n - 1 <= Len(bs) /\ WellFormedAt(bs, p, n)}

\* The set S of numbers in ascending order.
RECURSIVE Ascending(_)
Ascending(S) ==
    IF S = {} THEN <<>>
    ELSE LET m == CHOOSE x \in S : \A y \in S : x <= y
         IN  <<m>> \o Ascending(S \ {m})

\* The codepoints of a line, each as the bytes that encode it.
Codepoints(line) ==
    LET bs == line
        starts == Ascending({p \in 1..Len(bs) : CodepointAt(bs, p) # {}})
    IN  [k \in DOMAIN starts |->
            LET n == CHOOSE n \in CodepointAt(bs, starts[k]) : TRUE
            IN  SubSeq(bs, starts[k], starts[k] + n - 1)]

\* How many indices of the range a..b a unit of n elements has.
Existing(r, n) ==
    IF r.start >= n THEN 0 ELSE (IF r.end < n THEN r.end ELSE n) - r.start

\* How many elements the first j ranges of pos select from n elements.
RECURSIVE SelectedBefore(_, _, _)
SelectedBefore(pos, j, n) ==
    IF j = 0 THEN 0 ELSE SelectedBefore(pos, j - 1, n) + Existing(pos[j], n)

\* The projection of xs on pos: range after range in list order, and within
\* a range the elements at its existing indices in ascending order.
Projection(xs, pos) ==
    LET elems == xs
        n == Len(elems)
        before == [j \in 0..Len(pos) |-> SelectedBefore(pos, j, n)]
    IN  [k \in 1..before[Len(pos)] |->
            LET j == CHOOSE j \in 1..Len(pos) : before[j - 1] < k /\ k <= before[j]
            IN  elems[pos[j].start + (k - before[j - 1])]]

Extracted(name) == xpc = "done" /\ extractor = name

\* C11: extract_chars returns the codepoints of the line at the existing
\* indices of the ranges, range after range in list order and ascending
\* within a range; the indices count codepoints, not bytes, and a codepoint
\* appears once per range that covers it.
C11_CharsProjected ==
    Extracted("chars") =>
        LET codepoints == Codepoints(unit)
        IN  output = Concat(Projection(codepoints, positions))

\* "a" then U+00E1, selected by 1..3 then 0..2: the second codepoint, then
\* both; index 2 does not exist.
C11_Witness ==
    /\ Extracted("chars")
    /\ unit = <<97, 195, 161>>
    /\ positions = <<Rng(1, 3), Rng(0, 2)>>
    /\ output = <<195, 161, 97, 195, 161>>

\* A byte sequence that is valid UTF-8: its codepoints leave no byte over.
ValidUtf8(bs) == Concat(Codepoints(bs)) = bs

\* The codepoints of a valid string other than U+FFFD (the bounded lines
\* hold no U+FFFD of their own).
Unreplaced(str) == SelectSeq(Codepoints(str), LAMBDA c : c # REPLACEMENT)

\* C12: extract_bytes selects the bytes of the line's UTF-8 encoding at the
\* existing byte indices of the ranges, in list order and ascending within a
\* range, and returns their lossy decoding: a valid string that keeps the
\* codepoints of the selection in order, and the selection itself when it
\* is valid UTF-8.
C12_BytesProjectedAndDecoded ==
    Extracted("bytes") =>
        LET selected == Projection(unit, positions)
        IN  /\ ValidUtf8(output)
            /\ Unreplaced(output) = Codepoints(selected)
            /\ ValidUtf8(selected) => output = selected

\* U+00E1 then "a", selected by 0..2: the two bytes of U+00E1.
C12_Witness ==
    /\ Extracted("bytes")
    /\ unit = <<195, 161, 97>>
    /\ positions = <<Rng(0, 2)>>
    /\ output = <<195, 161>>

\* The positions of bs that lie in a well-formed sequence of bs.
Covered(bs) ==
    {p \in 1..Len(bs) :
        \E s \in (p - 3)..p : s >= 1 /\ \E n \in CodepointAt(bs, s) : p <= s + n - 1}

CodepointStarts(bs) == {p \in 1..Len(bs) : CodepointAt(bs, p) # {}}

\* The first positions of the maximal runs of bytes outside every
\* well-formed sequence.
RunStarts(bs) ==
    LET cov == Covered(bs)
    IN  {p \in 1..Len(bs) : p \notin cov /\ (p = 1 \/ (p - 1) \in cov)}

\* bs decoded with the codepoints kept and one U+FFFD at each of the places
\* in marks.
Replaced(bs, marks) ==
    LET here == marks
        at == Ascending(CodepointStarts(bs) \cup here)
    IN  Concat([k \in DOMAIN at |->
            IF at[k] \in here THEN REPLACEMENT
            ELSE LET n == CHOOSE n \in CodepointAt(bs, at[k]) : TRUE
                 IN  SubSeq(bs, at[k], at[k] + n - 1)])

\* C13 as stated: every maximal run of selected bytes that are not valid
\* UTF-8 yields exactly one U+FFFD, the codepoints around it unchanged.
C13_OneReplacementPerRun ==
    Extracted("bytes") =>
        LET selected == Projection(unit, positions)
        IN  output = Replaced(selected, RunStarts(selected))

\* The n bytes of bs from position p begin a well-formed sequence.
InitialOfWellFormedAt(bs, p, n) ==
    \E row \in WellFormedTable :
        n <= Len(row) /\ \A i \in 1..n : bs[p + i - 1] \in row[i]

\* The first positions of the maximal subparts of the ill-formed runs: a
\* byte outside every well-formed sequence starts a subpart unless, with
\* the one or two bytes before it, it begins a well-formed sequence.
SubpartStarts(bs) ==
    LET cov == Covered(bs)
    IN  {p \in 1..Len(bs) :
            /\ p \notin cov
            /\ ~\E s \in (p - 2)..(p - 1) :
                    s >= 1 /\ InitialOfWellFormedAt(bs, s, p - s + 1)}

\* C13, amended: every maximal subpart of an ill-formed run (the first byte
\* of a sequence with the bytes that validly continue it, else one byte)
\* yields exactly one U+FFFD, the codepoints around it unchanged.
C13_OneReplacementPerSubpart ==
    Extracted("bytes") =>
        LET selected == Projection(unit, positions)
        IN  output = Replaced(selected, SubpartStarts(selected))

\* The first byte of U+00E1 selected twice: one run of two invalid bytes,
\* two U+FFFD.
C13_Witness ==
    /\ Extracted("bytes")
    /\ unit = <<195, 161>>
    /\ positions = <<Rng(0, 1), Rng(0, 1)>>
    /\ output = REPLACEMENT \o REPLACEMENT

\* C14: extract_fields returns the fields of the record at the existing
\* indices of the ranges, in list order and ascending within a range: only
\* fields of the record, unchanged, possibly reordered or repeated.
C14_FieldsProjected ==
    Extracted("fields") =>
        /\ output = Projection(unit, positions)
        /\ \A k \in DOMAIN output : \E i \in DOMAIN unit : output[k] = unit[i]

\* ["Captain", "Sham"] selected by 1..2 then 0..1.
C14_Witness ==
    /\ Extracted("fields")
    /\ unit = <<"Captain", "Sham">>
    /\ positions = <<Rng(1, 2), Rng(0, 1)>>
    /\ output = <<"Sham", "Captain">>

\* The length of a unit in the indices of its extractor.
UnitLen(name, u) == IF name = "chars" THEN Len(Codepoints(u)) ELSE Len(u)

\* The ranges of pos cut at n, those left empty dropped.
Clip(pos, n) ==
    SelectSeq([k \in DOMAIN pos |->
                  Rng(pos[k].start, IF pos[k].end < n THEN pos[k].end ELSE n)],
              LAMBDA r : r.start < r.end)

Extract(name, u, pos) ==
    IF name = "chars" THEN extract_chars(u, pos)
    ELSE IF name = "bytes" THEN extract_bytes(u, pos)
    ELSE extract_fields(u, pos)

\* C15: on every unit, the empty one included, and every PositionList each
\* extractor returns a projection; the indices at or beyond the length of
\* the unit add nothing to it, so the output is the one for the ranges cut
\* at the length of the unit, a range wholly beyond it being absent.
C15_OutOfRangeIgnored ==
    /\ xpc = "call" =>
          LET out == Extract(extractor, unit, positions)
          IN  DOMAIN out = 1..Len(out)
    /\ xpc = "done" =>
          LET cut == Clip(positions, UnitLen(extractor, unit))
          IN  output = Extract(extractor, unit, cut)

\* One field; 1..3 lies beyond it, 0..2 reaches past it.
C15_Witness ==
    /\ Extracted("fields")
    /\ unit = <<"Captain">>
    /\ positions = <<Rng(1, 3), Rng(0, 2)>>
    /\ output = <<"Captain">>

\* The ranges of pos are ascending, do not overlap, and together cover 0..n
\* without a gap.
Covering(pos, n) ==
    /\ pos[1].start = 0
    /\ \A k \in 1..(Len(pos) - 1) : pos[k + 1].start = pos[k].end
    /\ pos[Len(pos)].end = n

\* C16: a PositionList whose ranges are ascending, non-overlapping and cover
\* 0..N contiguously, N the length of the unit in codepoints, bytes or
\* fields, makes the extractor return the unit unchanged.
C16_RoundTrip ==
    xpc = "done" /\ Covering(positions, UnitLen(extractor, unit))
        => output = unit

\* U+00E1 then "a" by bytes, the two bytes of U+00E1 in different ranges.
C16_Witness ==
    /\ Extracted("bytes")
    /\ unit = <<195, 161, 97>>
    /\ positions = <<Rng(0, 1), Rng(1, 3)>>
    /\ output = <<195, 161, 97>>

\* ============================================================ leading zeros
\* parse_pos called on a selector string, then on the same string with zeros
\* written before some of its numbers (test_parse_pos: "001,0003", "0001-03").

\* ------------------------------------------------------------------ bounds
MaxZeros == 2       \* zeros written before a number

\* The selector strings to pad: numbers, '-' and ','.
PaddedPieces == {"0", "1", "2", "-", ",", MaxPiece}

PaddedPieceStrings == UNION {[1..n -> PaddedPieces] : n \in 0..MaxLen}

\* The places of s where a number starts.
NumberStarts(s) ==
    {k \in 1..Len(s) : IsAsciiDigit(s[k]) /\ (k = 1 \/ s[k - 1] \in {",", "-"})}

\* s with z zeros written before each of the places in K.
Pad(s, K, z) ==
    Concat([k \in 1..Len(s) |->
               IF k \in K THEN [i \in 1..z |-> "0"] \o <<s[k]>> ELSE <<s[k]>>])

InitZeros ==
    /\ \E ps \in PaddedPieceStrings : range = Text(ps)
    /\ pc = "call"
    /\ evaluated = <<>>
    /\ result = Err(<<>>)
    /\ ExtractIdle
    /\ RunIdle
    /\ WorkerIdle /\ TailIdle /\ CommIdle

\* parse_pos called again, on the accepted string padded with zeros.
ParsePadded ==
    /\ pc = "done" /\ result.ok
    /\ \E K \in SUBSET NumberStarts(range) : \E z \in 1..MaxZeros :
          /\ K # {}
          /\ range' = Pad(range, K, z)
    /\ evaluated' = map_until_err(split_comma(range'))
    /\ result' = collect_result(evaluated')
    /\ pc' = "padded"
    /\ UNCHANGED <<extract_vars, run_vars, aux_vars>>

NextZeros == ParsePos \/ ParsePadded

SpecZeros == InitZeros /\ [][NextZeros]_vars

\* C18: zeros written before any of the numbers of an accepted selector
\* string (a single number, or either side of a range) leave the returned
\* PositionList unchanged.
C18_LeadingZerosTolerated == [][ParsePadded => result' = result]_vars

\* "1-2,2" padded to "001-2,002": still 0..2 and 1..2.
C18_Witness ==
    /\ pc = "padded"
    /\ range = <<"0", "0", "1", "-", "2", ",", "0", "0", "2">>
    /\ result = Ok(<<Rng(<<0>>, <<2>>), Rng(<<1>>, <<2>>)>>)

\* ======================================================== get_args and run
\* The command line is what clap hands over: the value of --delim (a string,
\* a sequence of characters as in the selector strings; "U+00E1" stands for
\* the character U+00E1, two bytes in UTF-8), the values of --fields,
\* --bytes and --chars when given, and the file names.  A file is the
\* sequence of its lines, each the bytes between two line ends.

\* ------------------------------------------------------------------ bounds
MaxFiles == 2       \* file names on the command line
MaxLines == 2       \* lines of a file

\* ------------------------------------------------------------------ inputs
None == [some |-> FALSE]
Some(v) == [some |-> TRUE, val |-> v]

\* "1", "2,1" and "0" (which parse_pos refuses).
Selectors == {<<"1">>, <<"2", ",", "1">>, <<"0">>}

OptSelectors == {None} \cup {Some(x) : x \in Selectors}

\* A tab, two commas, and one character of two bytes.
Delimiters == {<<"\t">>, <<",", ",">>, <<"U+00E1">>}

FileNames == {"a.txt", "missing"}

FileLists == UNION {[1..n -> FileNames] : n \in 1..MaxFiles}

CommandLines ==
    [delimiter : Delimiters, fields : OptSelectors, bytes : OptSelectors,
     chars : OptSelectors, files : FileLists]

\* The lines of a.txt: "a<TAB>U+00E1", "U+00E1", and the lone byte C3, which
\* is not UTF-8.
FileLines == {<<97, 9, 195, 161>>, <<195, 161>>, <<195>>}

NotFound == [opens |-> FALSE]
Content(ls) == [opens |-> TRUE, lines |-> ls]

\* a.txt opens, the file named missing does not.
FileSystems ==
    {[name \in FileNames |-> IF name = "missing" THEN NotFound ELSE Content(ls)] :
        ls \in UNION {[1..n -> FileLines] : n \in 0..MaxLines}}

\* ---------------------------------------------------------------- get_args
\* clap refuses two of --fields, --bytes, --chars together (conflicts_with_all)
\* and ends the process inside get_matches.
clap_conflict(args) ==
    Cardinality({o \in {"fields", "bytes", "chars"} : args[o].some}) > 1

\* delimiter.as_bytes().len() and the first of these bytes.
len_utf8(c) == IF c = "U+00E1" THEN 2 ELSE 1

RECURSIVE as_bytes_len(_)
as_bytes_len(str) ==
    IF str = <<>> THEN 0 ELSE len_utf8(Head(str)) + as_bytes_len(Tail(str))

first_byte(str) ==
    IF Head(str) = "\t" THEN 9 ELSE IF Head(str) = "," THEN 44 ELSE 195

delimiter_error(delimiter) ==
    <<"--delim \"">> \o delimiter \o <<"\" must be a single byte">>

parse_pos(input) == collect_result(map_until_err(split_comma(input)))

\* matches.get_one(..).map(|s| parse_pos(s)).transpose()
map_parse_pos_transpose(opt) ==
    IF ~opt.some THEN Ok(None)
    ELSE LET r == parse_pos(opt.val)
         IN  IF r.ok THEN Ok(Some(r.val)) ELSE r

must_have_error == <<"Must have --fields, --bytes, or --chars">>

\* A choice that takes the byte selector for a character selector.
choose_extract_bytes_as_chars(opt_fields, opt_bytes, opt_chars) ==
    IF opt_fields.some THEN Ok([variant |-> "Fields", pos |-> opt_fields.val])
    ELSE IF opt_bytes.some THEN Ok([variant |-> "Chars", pos |-> opt_bytes.val])
    ELSE IF opt_chars.some THEN Ok([variant |-> "Chars", pos |-> opt_chars.val])
    ELSE Err(must_have_error)

\* let extract = if let Some(field_pos) = opt_fields { .. } else { return Err }
choose_extract(opt_fields, opt_bytes, opt_chars) ==
    IF opt_fields.some THEN Ok([variant |-> "Fields", pos |-> opt_fields.val])
    ELSE IF opt_bytes.some THEN Ok([variant |-> "Bytes", pos |-> opt_bytes.val])
    ELSE IF opt_chars.some THEN Ok([variant |-> "Chars", pos |-> opt_chars.val])
    ELSE Err(must_have_error)

\* get_args after get_matches has returned; opt_fields, opt_bytes and
\* opt_chars are the three selectors after map(parse_pos).transpose().
get_args(args, opt_fields, opt_bytes, opt_chars) ==
    IF as_bytes_len(args.delimiter) # 1
    THEN Err(delimiter_error(args.delimiter))
    ELSE IF ~opt_fields.ok THEN opt_fields
    ELSE IF ~opt_bytes.ok THEN opt_bytes
    ELSE IF ~opt_chars.ok THEN opt_chars
    ELSE LET extract == choose_extract(opt_fields.val, opt_bytes.val, opt_chars.val)
         IN  IF ~extract.ok THEN extract
             ELSE Ok([files |-> args.files,
                      delimiter |-> first_byte(args.delimiter),
                      extract |-> extract.val])

\* --------------------------------------------------------------------- run
\* The number a usize numeral stands for (the indices of a run are small).
RECURSIVE usize_value(_)
usize_value(n) ==
    IF n = <<>> THEN 0
    ELSE usize_value(SubSeq(n, 1, Len(n) - 1)) * 10 + n[Len(n)]

\* The PositionList of the Config, as the extractors index with it.
index_ranges(pos) ==
    [k \in DOMAIN pos |-> Rng(usize_value(pos[k].start), usize_value(pos[k].end))]

\* str::from_utf8: every step of the decoder finds a whole scalar value.
RECURSIVE valid_from(_, _)
valid_from(xs, i) ==
    IF i >= Len(xs) THEN TRUE
    ELSE LET c == scan(xs, i) IN c.valid /\ valid_from(xs, i + c.len)

from_utf8(xs) ==
    IF valid_from(xs, 0) THEN Ok(xs)
    ELSE Err(<<"stream did not contain valid UTF-8">>)

\* file.lines()
lines(content) == [k \in DOMAIN content |-> from_utf8(content[k])]

\* The fields of a line without quotes: the bytes between the delimiters.
RECURSIVE split_fields(_, _)
split_fields(line, delimiter) ==
    IF \A i \in 1..Len(line) : line[i] # delimiter THEN <<line>>
    ELSE LET at == CHOOSE i \in 1..Len(line) :
                      line[i] = delimiter /\ \A j \in 1..(i - 1) : line[j] # delimiter
         IN  <<SubSeq(line, 1, at - 1)>>
                 \o split_fields(SubSeq(line, at + 1, Len(line)), delimiter)

\* reader.records() of a reader that is not flexible: a StringRecord must be
\* UTF-8 and must have as many fields as the first record.
records(content, delimiter) ==
    [k \in DOMAIN content |->
        LET fields == split_fields(content[k], delimiter)
        IN  IF ~valid_from(content[k], 0)
            THEN Err(<<"invalid UTF-8 in field">>)
            ELSE IF Len(fields) # Len(split_fields(content[1], delimiter))
            THEN Err(<<"found record with a different number of fields">>)
            ELSE Ok(fields)]

\* A dispatch that sends the lines of a byte selection to extract_chars.
match_extract_bytes_to_chars(extract) ==
    IF extract.variant = "Fields" THEN "fields" ELSE "chars"

\* match &config.extract: the extractor of the variant.
match_extract(extract) ==
    IF extract.variant = "Fields" THEN "fields"
    ELSE IF extract.variant = "Bytes" THEN "bytes"
    ELSE "chars"

\* The items the loop over an open file goes through.
items(cfg, content) ==
    IF match_extract(cfg.extract) = "fields"
    THEN records(content, cfg.delimiter)
    ELSE lines(content)

open(filename) ==
    IF fs[filename].opens THEN Ok(fs[filename].lines)
    ELSE Err(<<"No such file or directory (os error 2)">>)

\* ----------------------------------------------------------- specification
InitRun ==
    /\ ParseIdle
    /\ ExtractIdle
    /\ WorkerIdle /\ TailIdle /\ CommIdle
    /\ cli \in CommandLines
    /\ fs \in FileSystems
    /\ config = <<>>
    /\ rpc = "start"
    /\ fi = 1 /\ li = 1
    /\ calls = <<>> /\ stdout = <<>> /\ stderr = <<>>
    /\ run_result = <<>>

\* get_args; run is called with the Config it returns, and with nothing
\* else: the fields of Config are private to lib.rs.
GetArgs ==
    /\ rpc = "start"
    /\ IF clap_conflict(cli)
       THEN /\ config' = <<>>
            /\ rpc' = "exit"
            /\ stderr' = <<"error: the argument cannot be used with another">>
       ELSE /\ \E opt_fields \in {map_parse_pos_transpose(cli.fields)} :
               \E opt_bytes \in {map_parse_pos_transpose(cli.bytes)} :
               \E opt_chars \in {map_parse_pos_transpose(cli.chars)} :
                  config' = get_args(cli, opt_fields, opt_bytes, opt_chars)
            /\ rpc' = IF config'.ok THEN "files" ELSE "exit"
            /\ UNCHANGED stderr
    /\ UNCHANGED <<aux_vars, parse_vars, extract_vars, cli, fs, fi, li, calls, stdout,
                   run_result>>

\* A run that gives up at the first file that does not open: open(filename)?
RunOpenErrReturns ==
    /\ rpc = "files" /\ fi <= Len(config.val.files)
    /\ LET filename == config.val.files[fi]
       IN  /\ ~open(filename).ok
           /\ run_result' = Err(<<filename, ": ">> \o open(filename).err)
    /\ rpc' = "done"
    /\ UNCHANGED <<aux_vars, parse_vars, extract_vars, cli, fs, config, fi, li, calls,
                   stdout, stderr>>

\* Err(err) => eprintln!("{}: {}", filename, err)
RunOpenErr ==
    /\ rpc = "files" /\ fi <= Len(config.val.files)
    /\ LET filename == config.val.files[fi]
       IN  /\ ~open(filename).ok
           /\ stderr' = Append(stderr, <<filename, ": ">> \o open(filename).err)
    /\ fi' = fi + 1
    /\ UNCHANGED <<aux_vars, parse_vars, extract_vars, cli, fs, config, rpc, li, calls,
                   stdout, run_result>>

\* Ok(file) => match &config.extract
RunOpenOk ==
    /\ rpc = "files" /\ fi <= Len(config.val.files)
    /\ open(config.val.files[fi]).ok
    /\ rpc' = "reading"
    /\ UNCHANGED <<aux_vars, parse_vars, extract_vars, cli, fs, config, fi, li, calls,
                   stdout, stderr, run_result>>

\* One turn of the loop over the records or the lines of the open file: the
\* item is read and handed to the extractor, and the projection is written.
RunItem ==
    /\ rpc = "reading"
    /\ LET cfg == config.val
           its == items(cfg, open(cfg.files[fi]).val)
       IN  /\ li <= Len(its) /\ its[li].ok
           /\ LET name == match_extract(cfg.extract)
                  out == IF name = "fields"
                         THEN extract_fields(its[li].val, index_ranges(cfg.extract.pos))
                         ELSE IF name = "bytes"
                         THEN extract_bytes(its[li].val, index_ranges(cfg.extract.pos))
                         ELSE extract_chars(its[li].val, index_ranges(cfg.extract.pos))
              IN  /\ calls' = Append(calls, [extractor |-> name,
                                             unit |-> its[li].val,
                                             pos |-> cfg.extract.pos])
                  /\ stdout' = Append(stdout, out)
    /\ li' = li + 1
    /\ UNCHANGED <<aux_vars, parse_vars, extract_vars, cli, fs, config, rpc, fi, stderr,
                   run_result>>

\* record? and line?: an item that cannot be read ends run with its error.
RunReadErr ==
    /\ rpc = "reading"
    /\ LET cfg == config.val
           its == items(cfg, open(cfg.files[fi]).val)
       IN  /\ li <= Len(its) /\ ~its[li].ok
           /\ run_result' = Err(its[li].err)
    /\ rpc' = "done"
    /\ UNCHANGED <<aux_vars, parse_vars, extract_vars, cli, fs, config, fi, li, calls,
                   stdout, stderr>>

\* The open file is at its end: on to the next file name.
RunFileEnd ==
    /\ rpc = "reading"
    /\ LET cfg == config.val
       IN  li > Len(items(cfg, open(cfg.files[fi]).val))
    /\ fi' = fi + 1
    /\ li' = 1
    /\ rpc' = "files"
    /\ UNCHANGED <<aux_vars, parse_vars, extract_vars, cli, fs, config, calls, stdout,
                   stderr, run_result>>

\* Ok(()) after the last file name.
RunReturn ==
    /\ rpc = "files" /\ fi > Len(config.val.files)
    /\ run_result' = Ok(<<>>)
    /\ rpc' = "done"
    /\ UNCHANGED <<aux_vars, parse_vars, extract_vars, cli, fs, config, fi, li, calls,
                   stdout, stderr>>

NextRun ==
    \/ GetArgs
    \/ RunOpenErr
    \/ RunOpenOk
    \/ RunItem
    \/ RunReadErr
    \/ RunFileEnd
    \/ RunReturn

SpecRun == InitRun /\ [][NextRun]_vars

\* --------------------------------------------- what the contract says of run
\* The extractor the contract gives each variant of Extract.
ExtractorOf == [Fields |-> "fields", Bytes |-> "bytes", Chars |-> "chars"]

\* The units of a file that opens: its records for Fields, else its lines,
\* up to the first that cannot be read.
UnitsOf(filename) ==
    IF ~fs[filename].opens THEN <<>>
    ELSE LET its == IF config.val.extract.variant = "Fields"
                    THEN records(fs[filename].lines, config.val.delimiter)
                    ELSE lines(fs[filename].lines)
             bad == {k \in DOMAIN its : ~its[k].ok}
             n == IF bad = {} THEN Len(its)
                  ELSE (CHOOSE k \in bad : \A j \in bad : k <= j) - 1
         IN  [k \in 1..n |-> its[k].val]

\* The units run has gone through: those of the files before the current
\* one, and those before the current place in the current file.
Consumed ==
    LET files == config.val.files
        whole == Concat([k \in 1..(fi - 1) |-> UnitsOf(files[k])])
    IN  IF fi <= Len(files) /\ fs[files[fi]].opens
        THEN whole \o SubSeq(UnitsOf(files[fi]), 1, li - 1)
        ELSE whole

Running == rpc \in {"files", "reading", "done"}

\* C19: one mode for a whole run.  For a Config holding Fields(p), Bytes(p)
\* or Chars(p), every line or record of every file run opens goes to the
\* extractor of that variant, with that p, and to no other extractor.
C19_OneModePerRun ==
    Running =>
        /\ Len(calls) = Len(Consumed)
        /\ \A k \in DOMAIN calls :
              calls[k] = [extractor |-> ExtractorOf[config.val.extract.variant],
                          unit |-> Consumed[k],
                          pos |-> config.val.extract.pos]

\* cutr -b 2,1 a.txt missing a.txt, a.txt of one line: run returned Ok after
\* two calls of extract_bytes.
C19_Witness ==
    /\ rpc = "done" /\ run_result = Ok(<<>>)
    /\ config.val.extract.variant = "Bytes"
    /\ Len(config.val.files) = 2
    /\ Len(calls) = 2
    /\ \A k \in DOMAIN calls : calls[k].extractor = "bytes"

\* ---------------------------------------- what the contract says of get_args
Supplied == {o \in {"fields", "bytes", "chars"} : cli[o].some}

VariantOf == [fields |-> "Fields", bytes |-> "Bytes", chars |-> "Chars"]

Returned_get_args == rpc # "start" /\ ~clap_conflict(cli)

\* C20: get_args answers `Must have --fields, --bytes, or --chars` only
\* when none of the three selectors was supplied; when exactly one was
\* supplied and parses, the Config get_args builds (it builds one when the
\* delimiter is a single byte) holds the variant of that selector with the
\* PositionList parsed from it.
C20_ModeConstruction ==
    Returned_get_args =>
        /\ config = Err(must_have_error) => Supplied = {}
        /\ \A o \in Supplied :
              LET parsed == parse_pos(cli[o].val)
              IN  Supplied = {o} /\ parsed.ok =>
                    /\ config.ok <=> as_bytes_len(cli.delimiter) = 1
                    /\ config.ok =>
                          config.val.extract =
                              [variant |-> VariantOf[o], pos |-> parsed.val]

\* cutr -b 2,1: Bytes([1..2, 0..1]).
C20_Witness ==
    /\ Returned_get_args
    /\ Supplied = {"bytes"} /\ cli.bytes = Some(<<"2", ",", "1">>)
    /\ config.ok
    /\ config.val.extract =
          [variant |-> "Bytes",
           pos |-> <<Rng(<<1>>, <<2>>), Rng(<<0>>, <<1>>)>>]

\* ======================================================== concurrent calls
\* Several workers, each in a call of an extractor on a unit of its own, all
\* borrowing one PositionList.  A call is taken apart into the steps of its
\* iterator chain, so that the calls interleave step by step:
\*   pos.iter().cloned()    the next range of the borrowed list, cloned;
\*   range.filter_map(..)   the next index of the clone, looked up with get;
\*   .collect()             the end of the chain.

\* ------------------------------------------------------------------ inputs
Workers == {"w1", "w2"}

\* "a" U+00E1 by codepoints and by bytes, "a" alone, the empty line, and a
\* record of two fields.
WorkerCalls ==
    { [extractor |-> "chars", unit |-> <<97, 195, 161>>],
      [extractor |-> "bytes", unit |-> <<97, 195, 161>>],
      [extractor |-> "chars", unit |-> <<97>>],
      [extractor |-> "bytes", unit |-> <<>>],
      [extractor |-> "fields", unit |-> <<"Captain", "Sham">>] }

SharedLists == {<<Rng(0, 1)>>, <<Rng(0, 3)>>, <<Rng(1, 3), Rng(0, 2)>>}

\* ------------------------------------------------------------------- steps
\* A step of a range that is iterated where it lies in the borrowed list.
range_next_in_place(pos, k, cur) ==
    [pos |-> [pos EXCEPT ![k] = Rng(pos[k].start + 1, pos[k].end)],
     cur |-> Rng(pos[k].start + 1, pos[k].end),
     index |-> pos[k].start]

\* Range::next on the clone of pos[k]: the clone moves on, the list does not.
range_next(pos, k, cur) ==
    [pos |-> pos, cur |-> Rng(cur.start + 1, cur.end), index |-> cur.start]

\* What the call looks its indices up in.
elements(name, u) == IF name = "chars" THEN chars(u) ELSE u

\* What the end of the chain makes of the elements found.
collected(name, found) ==
    IF name = "chars" THEN collect_string(found)
    ELSE IF name = "bytes" THEN from_utf8_lossy(found)
    ELSE found

\* ----------------------------------------------------------- specification
InitWorkers ==
    /\ ParseIdle /\ ExtractIdle /\ RunIdle /\ TailIdle /\ CommIdle
    /\ shared \in SharedLists
    /\ worker \in [Workers ->
           {[extractor |-> c.extractor, unit |-> c.unit, pc |-> "call",
             elems |-> <<>>, k |-> 0, cursor |-> None, found |-> <<>>,
             lookups |-> 0, output |-> <<>>] : c \in WorkerCalls}]

WorkerUnchanged == UNCHANGED <<parse_vars, extract_vars, run_vars, tail_vars, comm_vars>>

\* The call starts: line.chars().collect(), line.as_bytes(), or the record.
WorkerCall(w) ==
    /\ worker[w].pc = "call"
    /\ worker' = [worker EXCEPT ![w].pc = "iter",
                                ![w].elems = elements(worker[w].extractor, worker[w].unit),
                                ![w].k = 0]
    /\ UNCHANGED shared
    /\ WorkerUnchanged

\* flat_map asks iter().cloned() for the next range.
WorkerNextRange(w) ==
    /\ worker[w].pc = "iter" /\ ~worker[w].cursor.some
    /\ worker[w].k < Len(shared)
    /\ worker' = [worker EXCEPT ![w].k = @ + 1,
                                ![w].cursor = Some(shared[worker[w].k + 1])]
    /\ UNCHANGED shared
    /\ WorkerUnchanged

\* filter_map takes the next index of the range and looks it up.
WorkerLookup(w) ==
    /\ worker[w].pc = "iter" /\ worker[w].cursor.some
    /\ worker[w].cursor.val.start < worker[w].cursor.val.end
    /\ \E step \in {range_next(shared, worker[w].k, worker[w].cursor.val)} :
          /\ shared' = step.pos
          /\ worker' = [worker EXCEPT
                ![w].cursor = Some(step.cur),
                ![w].lookups = @ + 1,
                ![w].found = IF step.index < Len(worker[w].elems)
                             THEN Append(@, worker[w].elems[step.index + 1])
                             ELSE @]
    /\ WorkerUnchanged

\* The range is at its end.
WorkerRangeEnd(w) ==
    /\ worker[w].pc = "iter" /\ worker[w].cursor.some
    /\ worker[w].cursor.val.start >= worker[w].cursor.val.end
    /\ worker' = [worker EXCEPT ![w].cursor = None]
    /\ UNCHANGED shared
    /\ WorkerUnchanged

\* The list is at its end: collect, and the call returns.
WorkerReturn(w) ==
    /\ worker[w].pc = "iter" /\ ~worker[w].cursor.some
    /\ worker[w].k >= Len(shared)
    /\ worker' = [worker EXCEPT
          ![w].pc = "done",
          ![w].output = collected(worker[w].extractor, worker[w].found)]
    /\ UNCHANGED shared
    /\ WorkerUnchanged

NextWorkers ==
    \E w \in Workers :
        \/ WorkerCall(w)
        \/ WorkerNextRange(w)
        \/ WorkerLookup(w)
        \/ WorkerRangeEnd(w)
        \/ WorkerReturn(w)

SpecWorkers == InitWorkers /\ [][NextWorkers]_vars

\* C21: under every interleaving of the calls, each call returns what it
\* returns when run alone, and no call changes the shared PositionList or a
\* unit.
C21_ConcurrentCallsIndependent ==
    /\ [](\A w \in Workers :
            worker[w].pc = "done" =>
                worker[w].output = Extract(worker[w].extractor, worker[w].unit, shared))
    /\ [][/\ shared' = shared
          /\ \A w \in Workers : worker'[w].unit = worker[w].unit]_vars

\* Both calls have returned, one by codepoints and one by bytes, on the list
\* 1..3, 0..2.
C21_Witness ==
    /\ shared = <<Rng(1, 3), Rng(0, 2)>>
    /\ worker["w1"].pc = "done" /\ worker["w2"].pc = "done"
    /\ worker["w1"].extractor = "chars" /\ worker["w1"].output = <<195, 161, 97, 195, 161>>
    /\ worker["w2"].extractor = "bytes" /\ worker["w2"].unit = <<97, 195, 161>>

\* How many elements of the unit the shared list selects for worker w.
SelectedCount(w) ==
    SelectedBefore(shared, Len(shared),
                   UnitLen(worker[w].extractor, worker[w].unit))

\* C22: a call that has returned has made no more index look-ups than one
\* for every element it selected and one more for every range of the list.
C22_LookupsWithinSelection ==
    \A w \in Workers :
        worker[w].pc = "done" => worker[w].lookups <= SelectedCount(w) + Len(shared)

\* =================================================================== tailr
\* parse_num and get_start_index of tailr (src/11_tailr/src/lib.rs).
\*
\* An i64 is modelled at its full width: a sign and a numeral,
\* [neg |-> TRUE, mag |-> <<3>>] being -3; zero has neg = FALSE.  A u64 is a
\* numeral.  A TakeValue is [tag |-> "PlusZero"] or
\* [tag |-> "TakeNum", num |-> an i64].

\* ------------------------------------------------------------------ bounds
\* Longest count text, in pieces of TailPieces, fed to parse_num.
MaxNumLen == 3
\* Largest small number of lines (or bytes) of a file; i64::MAX is added.
MaxTotal == 4

\* ---------------------------------------------------------------- numerals
\* a + b
RECURSIVE BigAddDigits(_, _, _)
BigAddDigits(a, b, carry) ==
    IF a = <<>> /\ b = <<>> THEN (IF carry = 0 THEN <<>> ELSE <<carry>>)
    ELSE LET da == IF a = <<>> THEN 0 ELSE a[Len(a)]
             db == IF b = <<>> THEN 0 ELSE b[Len(b)]
             ra == IF a = <<>> THEN <<>> ELSE SubSeq(a, 1, Len(a) - 1)
             rb == IF b = <<>> THEN <<>> ELSE SubSeq(b, 1, Len(b) - 1)
             sum == da + db + carry
         IN  BigAddDigits(ra, rb, sum \div 10) \o <<sum % 10>>

BigAdd(a, b) == Normalize(BigAddDigits(a, b, 0))

\* a - b, for a >= b
RECURSIVE BigSubDigits(_, _, _)
BigSubDigits(a, b, borrow) ==
    IF a = <<>> THEN <<>>
    ELSE LET da == a[Len(a)]
             db == (IF b = <<>> THEN 0 ELSE b[Len(b)]) + borrow
             rb == IF b = <<>> THEN <<>> ELSE SubSeq(b, 1, Len(b) - 1)
         IN  BigSubDigits(SubSeq(a, 1, Len(a) - 1), rb, IF da < db THEN 1 ELSE 0)
                 \o <<IF da < db THEN da + 10 - db ELSE da - db>>

BigSub(a, b) == Normalize(BigSubDigits(a, b, 0))

\* The numeral of a small natural number.
RECURSIVE NumeralDigits(_)
NumeralDigits(n) == IF n = 0 THEN <<>> ELSE NumeralDigits(n \div 10) \o <<n % 10>>

Numeral(n) == IF n = 0 THEN Zero ELSE NumeralDigits(n)

\* --------------------------------------------------------------------- i64
\* The magnitudes of i64::MAX = 2^63 - 1 and of i64::MIN = -2^63.
I64MaxMag == <<9, 2, 2, 3, 3, 7, 2, 0, 3, 6, 8, 5, 4, 7, 7, 5, 8, 0, 7>>
I64MinMag == <<9, 2, 2, 3, 3, 7, 2, 0, 3, 6, 8, 5, 4, 7, 7, 5, 8, 0, 8>>

I64(is_neg, mag) == [neg |-> is_neg /\ mag # Zero, mag |-> mag]
I64Zero == I64(FALSE, Zero)
I64Max == I64(FALSE, I64MaxMag)
I64Min == I64(TRUE, I64MinMag)

\* The result of an operation that leaves the range of i64: a panic in a
\* build with overflow checks, the wrapped value without them.
I64Overflow == [overflow |-> TRUE]

i64_in_range(a) == BigLeq(a.mag, IF a.neg THEN I64MinMag ELSE I64MaxMag)

\* a < b
i64_lt(a, b) ==
    IF a.neg /\ ~b.neg THEN TRUE
    ELSE IF ~a.neg /\ b.neg THEN FALSE
    ELSE IF a.neg THEN BigLess(b.mag, a.mag)
    ELSE BigLess(a.mag, b.mag)

\* a + b
i64_add(a, b) ==
    LET sum == IF a.neg = b.neg THEN I64(a.neg, BigAdd(a.mag, b.mag))
               ELSE IF BigLeq(b.mag, a.mag) THEN I64(a.neg, BigSub(a.mag, b.mag))
               ELSE I64(b.neg, BigSub(b.mag, a.mag))
    IN  IF i64_in_range(sum) THEN sum ELSE I64Overflow

\* a - 1
i64_sub1(a) == i64_add(a, I64(TRUE, <<1>>))

\* i64::wrapping_neg: -a, and i64::MIN for i64::MIN.
wrapping_neg(a) == IF a = I64Min THEN I64Min ELSE I64(~a.neg, a.mag)

\* val.parse::<i64>(): i64::from_str.  It refuses "", "+" and "-", takes one
\* leading '+' or '-' as the sign, wants every other byte an ASCII digit,
\* and the checked accumulation overflows exactly when the number read is
\* above i64::MAX or below i64::MIN.
parse_i64(val) ==
    IF val = <<>> THEN Err("Empty")
    ELSE IF val = <<"+">> \/ val = <<"-">> THEN Err("InvalidDigit")
    ELSE LET is_neg == Head(val) = "-"
             digits == IF Head(val) \in {"+", "-"} THEN Tail(val) ELSE val
         IN  IF \E i \in 1..Len(digits) : ~IsAsciiDigit(digits[i])
             THEN Err("InvalidDigit")
             ELSE LET n == I64(is_neg, Normalize([i \in 1..Len(digits) |->
                                                     DigitVal(digits[i])]))
                  IN  IF i64_in_range(n)
                      THEN Ok(n)
                      ELSE Err(IF is_neg THEN "NegOverflow" ELSE "PosOverflow")

\* --------------------------------------------------------------- parse_num
PlusZero == [tag |-> "PlusZero"]
TakeNum(num) == [tag |-> "TakeNum", num |-> num]

starts_with_sign(val) == val # <<>> /\ Head(val) \in {"+", "-"}
starts_with_plus(val) == val # <<>> /\ Head(val) = "+"

\* Mutant of parse_num: an unsigned text is read as it stands.
parse_num_unsigned_positive(val) ==
    LET res == parse_i64(val)
    IN  IF res.ok
        THEN IF res.val = I64Zero /\ starts_with_plus(val)
             THEN Ok(PlusZero)
             ELSE Ok(TakeNum(res.val))
        ELSE Err(val)

parse_num(val) ==
    LET parsed == parse_i64(val)
        res == IF starts_with_sign(val) THEN parsed
               ELSE IF parsed.ok THEN Ok(wrapping_neg(parsed.val))
               ELSE parsed
    IN  IF res.ok
        THEN IF res.val = I64Zero /\ starts_with_plus(val)
             THEN Ok(PlusZero)
             ELSE Ok(TakeNum(res.val))
        ELSE Err(val)

\* --------------------------------------------------------- get_start_index
\* start as u64, for start >= 0.
as_u64(a) == a.mag

\* Mutant of get_start_index: the test num > total left out.
get_start_index_unbounded(take_val, total) ==
    IF take_val.tag = "PlusZero"
    THEN IF i64_lt(I64Zero, total) THEN Some(Zero) ELSE None
    ELSE LET num == take_val.num
         IN  IF num = I64Zero \/ total = I64Zero
             THEN None
             ELSE LET start == IF i64_lt(num, I64Zero) THEN i64_add(total, num)
                               ELSE i64_sub1(num)
                  IN  IF start = I64Overflow THEN Some(I64Overflow)
                      ELSE Some(IF i64_lt(start, I64Zero) THEN Zero ELSE as_u64(start))

get_start_index(take_val, total) ==
    IF take_val.tag = "PlusZero"
    THEN IF i64_lt(I64Zero, total) THEN Some(Zero) ELSE None
    ELSE LET num == take_val.num
         IN  IF num = I64Zero \/ total = I64Zero \/ i64_lt(total, num)
             THEN None
             ELSE LET start == IF i64_lt(num, I64Zero) THEN i64_add(total, num)
                               ELSE i64_sub1(num)
                  IN  IF start = I64Overflow THEN Some(I64Overflow)
                      ELSE Some(IF i64_lt(start, I64Zero) THEN Zero ELSE as_u64(start))

\* ------------------------------------------------------------------ inputs
I64MaxPiece == "9223372036854775807"
I64MinPiece == "9223372036854775808"

TailPieces == {"+", "-", "0", "1", "3", ".", "f", I64MaxPiece, I64MinPiece}

TailPieceText(p) ==
    IF p = I64MaxPiece THEN display_usize(I64MaxMag)
    ELSE IF p = I64MinPiece THEN display_usize(I64MinMag)
    ELSE <<p>>

RECURSIVE TailText(_)
TailText(pieces) ==
    IF pieces = <<>> THEN <<>>
    ELSE TailPieceText(Head(pieces)) \o TailText(Tail(pieces))

TailStrings == {TailText(ps) : ps \in UNION {[1..n -> TailPieces] : n \in 0..MaxNumLen}}

\* count_lines_bytes counts lines and bytes: a total is never negative.
Totals == {I64(FALSE, Numeral(n)) : n \in 0..MaxTotal} \cup {I64Max}

\* ----------------------------------------------------------- specification
InitTail ==
    /\ ParseIdle /\ ExtractIdle /\ RunIdle /\ WorkerIdle /\ CommIdle
    /\ tail_val \in TailStrings
    /\ tail_total \in Totals
    /\ take = <<>>
    /\ start_index = <<>>
    /\ tpc = "parse"

TailUnchanged == UNCHANGED <<parse_vars, extract_vars, run_vars, worker_vars, comm_vars>>

\* get_args: the count text goes through parse_num; an error ends the program.
ParseNum ==
    /\ tpc = "parse"
    /\ take' = parse_num(tail_val)
    /\ tpc' = IF take'.ok THEN "index" ELSE "done"
    /\ UNCHANGED <<tail_val, tail_total, start_index>>
    /\ TailUnchanged

\* print_lines / print_bytes: the place to start from.
GetStartIndex ==
    /\ tpc = "index"
    /\ start_index' = get_start_index(take.val, tail_total)
    /\ tpc' = "done"
    /\ UNCHANGED <<tail_val, tail_total, take>>
    /\ TailUnchanged

NextTail == ParseNum \/ GetStartIndex

SpecTail == InitTail /\ [][NextTail]_vars

\* ---------------------------------------------------- the contract's side
\* The text is an integer: an optional sign, then one ASCII digit or more.
IsIntegerText(val) ==
    LET digits == IF starts_with_sign(val) THEN Tail(val) ELSE val
    IN  digits # <<>> /\ \A i \in 1..Len(digits) : IsAsciiDigit(digits[i])

\* The magnitude an integer text writes.
TextMag(val) ==
    LET digits == IF starts_with_sign(val) THEN Tail(val) ELSE val
    IN  Normalize([i \in 1..Len(digits) |-> DigitVal(digits[i])])

\* The integer the text writes lies in i64::MIN..i64::MAX.
TextInI64(val) ==
    BigLeq(TextMag(val), IF Head(val) = "-" THEN I64MinMag ELSE I64MaxMag)

ParseNumReturned == tpc \in {"index", "done"}

\* C24: parse_num reads an integer text of the i64 range without '+' as the
\* negative count of its magnitude, with '+' as the positive one, "+0" (any
\* zero after '+') as PlusZero and a zero without '+' as TakeNum(0); the
\* ends of the range come out as i64::MAX -> i64::MIN + 1,
\* +i64::MAX -> i64::MAX and i64::MIN -> i64::MIN; a text that is no integer
\* is refused with the text itself as the message.
C24_ParseNumSigns ==
    ParseNumReturned =>
        /\ IsIntegerText(tail_val) /\ TextInI64(tail_val) =>
              take = Ok(IF starts_with_plus(tail_val)
                        THEN IF TextMag(tail_val) = Zero THEN PlusZero
                             ELSE TakeNum([neg |-> FALSE, mag |-> TextMag(tail_val)])
                        ELSE TakeNum([neg |-> TextMag(tail_val) # Zero,
                                      mag |-> TextMag(tail_val)]))
        /\ ~IsIntegerText(tail_val) => take = Err(tail_val)
        /\ tail_val = display_usize(I64MaxMag) =>
              take = Ok(TakeNum([neg |-> TRUE, mag |-> I64MaxMag]))
        /\ tail_val = <<"+">> \o display_usize(I64MaxMag) => take = Ok(TakeNum(I64Max))
        /\ tail_val = <<"-">> \o display_usize(I64MinMag) => take = Ok(TakeNum(I64Min))

\* "9223372036854775807" has been read as i64::MIN + 1.
C24_Witness ==
    /\ ParseNumReturned
    /\ tail_val = display_usize(I64MaxMag)
    /\ take = Ok(TakeNum([neg |-> TRUE, mag |-> I64MaxMag]))

\* C23: get_start_index returns, for PlusZero, Some(0) when total > 0 and
\* None when total = 0; for TakeNum(n), None when n = 0, total = 0 or
\* n > total, otherwise Some(n - 1) for positive n and for negative n
\* Some(total + n), or Some(0) where that is below 0.  An index returned is
\* below total.
C23_StartIndex ==
    (tpc = "done" /\ take.ok) =>
        LET t == tail_total
            v == take.val
        IN  /\ v.tag = "PlusZero" =>
                  start_index = (IF t # I64Zero THEN Some(Zero) ELSE None)
            /\ v.tag = "TakeNum" =>
                  LET n == v.num
                  IN  IF n = I64Zero \/ t = I64Zero \/ (~n.neg /\ BigLess(t.mag, n.mag))
                      THEN start_index = None
                      ELSE IF ~n.neg
                      THEN start_index = Some(BigDec(n.mag))
                      ELSE IF BigLeq(t.mag, n.mag)
                      THEN start_index = Some(Zero)
                      ELSE /\ start_index.some
                           /\ BigAdd(start_index.val, n.mag) = t.mag
            /\ start_index.some => BigLess(start_index.val, t.mag)

\* The last 3 lines of a file of 2 are asked for: the start is index 0.
C23_Witness ==
    /\ tpc = "done"
    /\ take = Ok(TakeNum([neg |-> TRUE, mag |-> <<3>>]))
    /\ tail_total = I64(FALSE, <<2>>)
    /\ start_index = Some(Zero)

\* ====================================== parse_pos: order of validation, width
\* parse_pos on selector strings written with numbers at the end of the
\* machine word: usize::MAX and usize::MAX - 1 beside the small numbers.

\* ------------------------------------------------------------------ inputs
MaxPredPiece == "18446744073709551614"

WordPieces == {"0", "1", "2", "-", ",", "a", MaxPiece, MaxPredPiece}

WordPieceText(p) ==
    IF p = MaxPredPiece
    THEN <<"1", "8", "4", "4", "6", "7", "4", "4", "0", "7",
           "3", "7", "0", "9", "5", "5", "1", "6", "1", "4">>
    ELSE PieceText(p)

RECURSIVE WordText(_)
WordText(pieces) ==
    IF pieces = <<>> THEN <<>>
    ELSE WordPieceText(Head(pieces)) \o WordText(Tail(pieces))

WordPieceStrings == UNION {[1..n -> WordPieces] : n \in 0..MaxLen}

\* ----------------------------------------------------------- specification
InitWord ==
    /\ \E ps \in WordPieceStrings : range = WordText(ps)
    /\ pc = "call"
    /\ evaluated = <<>>
    /\ result = Err(<<>>)
    /\ ExtractIdle
    /\ RunIdle
    /\ WorkerIdle /\ TailIdle /\ CommIdle

SpecWord == InitWord /\ [][Next]_vars

\* ---------------------------------------------------- the contract's side
\* A run of decimal digits, of ASCII or not.
IsDigitRun(t) == t # <<>> /\ \A i \in 1..Len(t) : IsRegexDigit(t[i])

\* A range token: two runs of decimal digits joined by one '-'.
IsRangeToken(t) ==
    \E d \in 2..(Len(t) - 1) :
        /\ t[d] = "-"
        /\ IsDigitRun(SubSeq(t, 1, d - 1))
        /\ IsDigitRun(SubSeq(t, d + 1, Len(t)))

\* A component of a range token that is no index: a zero, a number that
\* does not parse, or one above usize::MAX.
IllegalComponent(c) == ~(IsPositive(c) /\ BigLeq(Value(c), UsizeMax))

IsRangeOrderError(m) == m # <<>> /\ m[1] = "First number in range ("
IsIllegalListValue(m) == m # <<>> /\ m[1] = "illegal list value: \""

\* C25: in a range token the first component is validated, then the second,
\* then the order: an illegal first component is reported with
\* illegal list value, else an illegal second one, and the range-order error
\* is returned only for a token whose two components are both legal.
C25_ComponentsBeforeOrder ==
    Returned =>
        LET toks == Tokens(range) IN
        \A i \in DOMAIN evaluated :
            LET t == toks[i]
            IN  IsRangeToken(t) =>
                    /\ IllegalComponent(FirstOf(t)) =>
                          RejectedAt(i, IllegalListValue(FirstOf(t)))
                    /\ (~IllegalComponent(FirstOf(t)) /\ IllegalComponent(SecondOf(t))) =>
                          RejectedAt(i, IllegalListValue(SecondOf(t)))
                    /\ (~evaluated[i].ok /\ IsRangeOrderError(evaluated[i].err)) =>
                          /\ ~IllegalComponent(FirstOf(t))
                          /\ ~IllegalComponent(SecondOf(t))

\* "2-0" after a valid token: the zero is reported, not the order.
C25_Witness ==
    /\ Rejected
    /\ range = <<"1", ",", "2", "-", "0">>
    /\ result = Err(IllegalListValue(<<"0">>))

\* The i-th token is the leftmost that is no TOKEN of the grammar within the
\* machine word.
LeftmostInvalid(toks, i) ==
    /\ i \in DOMAIN toks
    /\ ~GrammarTokenInWord(toks[i])
    /\ \A j \in 1..(i - 1) : GrammarTokenInWord(toks[j])

\* C26: the error parse_pos returns is the error of the leftmost invalid
\* token, the one parse_pos gives for that token alone, whatever follows it:
\* the tokens are evaluated up to that one and no further.
C26_LeftmostErrorSurfaces ==
    Rejected =>
        LET toks == Tokens(range)
            i == Len(evaluated)
        IN  /\ LeftmostInvalid(toks, i)
            /\ result = parse_pos(toks[i])
            /\ RejectedAt(i, result.err)

\* Two invalid tokens of different kinds, the range-order one first.
C26_Witness ==
    /\ Rejected
    /\ range = <<"2", "-", "1", ",", "a">>
    /\ IsRangeOrderError(result.err)

\* A number above usize::MAX is written in the token.
HasOversizedNumber(t) ==
    \/ IsNumber(t) /\ BigLess(UsizeMax, Value(t))
    \/ /\ IsRangeShape(t)
       /\ \/ BigLess(UsizeMax, Value(FirstOf(t)))
          \/ BigLess(UsizeMax, Value(SecondOf(t)))

\* C27: for N from 1 to usize::MAX the token N gives (N-1)..N and, for
\* N < M <= usize::MAX, N-M gives (N-1)..M, the numbers being those of
\* unbounded arithmetic; the range-order message shows the numbers written,
\* none above usize::MAX; a token with a number above usize::MAX is
\* rejected with illegal list value.
C27_NoOverflow ==
    Returned =>
        LET toks == Tokens(range) IN
        \A i \in DOMAIN evaluated :
            LET t == toks[i]
            IN  /\ (IsPositive(t) /\ BigLeq(Value(t), UsizeMax)) =>
                      evaluated[i] = Ok(Rng(BigDec(Value(t)), Value(t)))
                /\ (/\ IsRangeShape(t)
                    /\ IsPositive(FirstOf(t))
                    /\ BigLess(Value(FirstOf(t)), Value(SecondOf(t)))
                    /\ BigLeq(Value(SecondOf(t)), UsizeMax)) =>
                      evaluated[i] = Ok(Rng(BigDec(Value(FirstOf(t))), Value(SecondOf(t))))
                /\ (~evaluated[i].ok /\ IsRangeOrderError(evaluated[i].err)) =>
                      /\ BigLeq(Value(FirstOf(t)), UsizeMax)
                      /\ BigLeq(Value(SecondOf(t)), UsizeMax)
                      /\ evaluated[i].err = RangeOrderMessage(FirstOf(t), SecondOf(t))
                /\ HasOversizedNumber(t) =>
                      /\ ~evaluated[i].ok
                      /\ IsIllegalListValue(evaluated[i].err)

\* 18446744073709551614-18446744073709551615 is accepted as
\* usize::MAX - 2 .. usize::MAX.
C27_Witness ==
    /\ Accepted
    /\ range = WordPieceText(MaxPredPiece) \o <<"-">> \o PieceText(MaxPiece)
    /\ result.val = <<Rng(BigDec(BigDec(UsizeMax)), UsizeMax)>>

\* ===================================== extraction over concatenated lists

\* The outputs of the extractor for the single ranges of pos, one after the
\* other.
RECURSIVE RangeByRange(_, _, _)
RangeByRange(name, u, pos) ==
    IF pos = <<>> THEN <<>>
    ELSE Extract(name, u, <<Head(pos)>>) \o RangeByRange(name, u, Tail(pos))

\* C28: for codepoints and fields, the output for a list A ++ B is the output
\* for A followed by the output for B, wherever the list is cut, and so the
\* outputs for its single ranges one after the other.
C28_DistributesOverConcatenation ==
    (Extracted("chars") \/ Extracted("fields")) =>
        /\ \A k \in 0..Len(positions) :
              output = Extract(extractor, unit, SubSeq(positions, 1, k))
                           \o Extract(extractor, unit,
                                      SubSeq(positions, k + 1, Len(positions)))
        /\ output = RangeByRange(extractor, unit, positions)

\* U+00E1 "a" by codepoints on 1..3 then 0..2: "a", then U+00E1 "a".
C28_Witness ==
    /\ Extracted("chars")
    /\ unit = <<195, 161, 97>>
    /\ positions = <<Rng(1, 3), Rng(0, 2)>>
    /\ output = <<97, 195, 161, 97>>

\* ================================================== run: files that fail to open
\* ---------------------------------------------------- the contract's side
\* What is reported for a file that cannot be opened.
OpenReport(filename) ==
    <<filename, ": ", "No such file or directory (os error 2)">>

\* The file names run has gone past.
Past == SubSeq(config.val.files, 1, fi - 1)

Unopened(files) == SelectSeq(files, LAMBDA f : ~fs[f].opens)

\* Every line or record of the file can be read.
Readable(filename) ==
    LET its == IF config.val.extract.variant = "Fields"
               THEN records(fs[filename].lines, config.val.delimiter)
               ELSE lines(fs[filename].lines)
    IN  \A k \in DOMAIN its : its[k].ok

NoReadError ==
    \A k \in DOMAIN config.val.files :
        fs[config.val.files[k]].opens => Readable(config.val.files[k])

\* C29: a file that cannot be opened is reported on stderr and adds nothing
\* to the output; run goes on to the files after it, in the order given; it
\* returns Ok exactly when every file that opens can be read to its end,
\* having then gone through all the file names and written the projection
\* of every unit of every file that opens.
C29_OpenErrorSkipsFile ==
    Running =>
        /\ stderr = [k \in DOMAIN Unopened(Past) |-> OpenReport(Unopened(Past)[k])]
        /\ Len(stdout) = Len(Consumed)
        /\ rpc = "done" =>
              /\ run_result.ok <=> NoReadError
              /\ run_result.ok =>
                    /\ fi = Len(config.val.files) + 1
                    /\ Len(stdout) = Len(Concat([k \in DOMAIN config.val.files |->
                                                    UnitsOf(config.val.files[k])]))

\* cutr -b .. missing a.txt: one report, then the lines of a.txt, then Ok.
C29_Witness ==
    /\ rpc = "done" /\ run_result = Ok(<<>>)
    /\ config.val.files = <<"missing", "a.txt">>
    /\ stderr = <<OpenReport("missing")>>
    /\ Len(stdout) > 0

\* =================================================================== commr
\* The merge loop of run of commr (src/10_commr/src/lib.rs), from the two
\* files opened to Ok(()).  A file is the sequence of its lines, a line a
\* sequence of bytes; a String is its UTF-8 bytes.

\* ------------------------------------------------------------------ bounds
\* Most lines of a file.
MaxCommLines == 2

\* ------------------------------------------------------------------ inputs
\* "a", "B", and the byte C3, which is not UTF-8.
CommLines == {<<97>>, <<66>>, <<195>>}

CommFiles == UNION {[1..n -> CommLines] : n \in 0..MaxCommLines}

CommConfigs ==
    [show_col1 : BOOLEAN, show_col2 : BOOLEAN, show_col3 : BOOLEAN,
     insensitive : BOOLEAN, delimiter : {<<9>>}]

\* --------------------------------------------------------------- operators
\* String::to_lowercase, on the letters of the inputs: A..Z to a..z.
to_lowercase(line) ==
    [i \in DOMAIN line |-> IF line[i] >= 65 /\ line[i] <= 90 THEN line[i] + 32
                           ELSE line[i]]

\* The closure case.
case(cfg, line) == IF cfg.insensitive THEN to_lowercase(line) ELSE line

\* val1.cmp(val2) of two Strings: the order of their bytes.
RECURSIVE cmp(_, _)
cmp(val1, val2) ==
    IF val1 = <<>> /\ val2 = <<>> THEN "Equal"
    ELSE IF val1 = <<>> THEN "Less"
    ELSE IF val2 = <<>> THEN "Greater"
    ELSE IF Head(val1) < Head(val2) THEN "Less"
    ELSE IF Head(val1) > Head(val2) THEN "Greater"
    ELSE cmp(Tail(val1), Tail(val2))

\* next() of open(..)?.lines().map_while(Result::ok).map(case), n lines of
\* the file having been read: the next line when there is one and it is
\* UTF-8, None at the end of the file and at a line that is not UTF-8.
next_line(cfg, content, n) ==
    IF n >= Len(content) THEN [item |-> None, n |-> n]
    ELSE LET line == lines(content)[n + 1]
         IN  [item |-> IF line.ok THEN Some(case(cfg, line.val)) ELSE None,
              n |-> n + 1]

\* columns.join(&config.delimiter)
RECURSIVE join(_, _)
join(cols, delimiter) ==
    IF cols = <<>> THEN <<>>
    ELSE IF Len(cols) = 1 THEN cols[1]
    ELSE cols[1] \o delimiter \o join(Tail(cols), delimiter)

\* The closure print: the columns it pushes for col.
print_columns(cfg, col) ==
    IF col.tag = "Col1"
    THEN (IF cfg.show_col1 THEN <<col.val>> ELSE <<>>)
    ELSE IF col.tag = "Col2"
    THEN (IF cfg.show_col2
          THEN (IF cfg.show_col1 THEN <<<<>>>> ELSE <<>>) \o <<col.val>>
          ELSE <<>>)
    ELSE (IF cfg.show_col3
          THEN (IF cfg.show_col1 THEN <<<<>>>> ELSE <<>>)
                   \o (IF cfg.show_col2 THEN <<<<>>>> ELSE <<>>) \o <<col.val>>
          ELSE <<>>)

\* What print adds to standard output.
print(cfg, out, col) ==
    IF print_columns(cfg, col) = <<>> THEN out
    ELSE Append(out, join(print_columns(cfg, col), cfg.delimiter))

Col1(val) == [tag |-> "Col1", val |-> val]
Col2(val) == [tag |-> "Col2", val |-> val]
Col3(val) == [tag |-> "Col3", val |-> val]

\* ----------------------------------------------------------- specification
InitComm ==
    /\ ParseIdle /\ ExtractIdle /\ RunIdle /\ WorkerIdle /\ TailIdle
    /\ content1 \in CommFiles
    /\ content2 \in CommFiles
    /\ comm_config \in CommConfigs
    /\ next1 = 0 /\ next2 = 0
    /\ line1 = None /\ line2 = None
    /\ emitted = <<>> /\ printed = <<>>
    /\ cpc = "open"

CommUnchanged ==
    UNCHANGED <<parse_vars, extract_vars, run_vars, worker_vars, tail_vars,
                content1, content2, comm_config>>

\* let mut line1 = lines1.next(); let mut line2 = lines2.next();
CommFirstLines ==
    /\ cpc = "open"
    /\ \E n1 \in {next_line(comm_config, content1, next1)} :
          line1' = n1.item /\ next1' = n1.n
    /\ \E n2 \in {next_line(comm_config, content2, next2)} :
          line2' = n2.item /\ next2' = n2.n
    /\ cpc' = "loop"
    /\ UNCHANGED <<emitted, printed>>
    /\ CommUnchanged

\* (Some(val1), Some(val2)), Equal
CommEqual ==
    /\ cpc = "loop" /\ line1.some /\ line2.some
    /\ cmp(line1.val, line2.val) = "Equal"
    /\ emitted' = Append(emitted, Col3(line1.val))
    /\ printed' = print(comm_config, printed, Col3(line1.val))
    /\ \E n1 \in {next_line(comm_config, content1, next1)} :
          line1' = n1.item /\ next1' = n1.n
    /\ \E n2 \in {next_line(comm_config, content2, next2)} :
          line2' = n2.item /\ next2' = n2.n
    /\ UNCHANGED cpc
    /\ CommUnchanged

\* (Some(val1), Some(val2)), Less
CommLess ==
    /\ cpc = "loop" /\ line1.some /\ line2.some
    /\ cmp(line1.val, line2.val) = "Less"
    /\ emitted' = Append(emitted, Col1(line1.val))
    /\ printed' = print(comm_config, printed, Col1(line1.val))
    /\ \E n1 \in {next_line(comm_config, content1, next1)} :
          line1' = n1.item /\ next1' = n1.n
    /\ UNCHANGED <<line2, next2, cpc>>
    /\ CommUnchanged

\* (Some(val1), Some(val2)), Greater
CommGreater ==
    /\ cpc = "loop" /\ line1.some /\ line2.some
    /\ cmp(line1.val, line2.val) = "Greater"
    /\ emitted' = Append(emitted, Col2(line2.val))
    /\ printed' = print(comm_config, printed, Col2(line2.val))
    /\ \E n2 \in {next_line(comm_config, content2, next2)} :
          line2' = n2.item /\ next2' = n2.n
    /\ UNCHANGED <<line1, next1, cpc>>
    /\ CommUnchanged

\* (Some(val1), None)
CommRest1 ==
    /\ cpc = "loop" /\ line1.some /\ ~line2.some
    /\ emitted' = Append(emitted, Col1(line1.val))
    /\ printed' = print(comm_config, printed, Col1(line1.val))
    /\ \E n1 \in {next_line(comm_config, content1, next1)} :
          line1' = n1.item /\ next1' = n1.n
    /\ UNCHANGED <<line2, next2, cpc>>
    /\ CommUnchanged

\* (None, Some(val2))
CommRest2 ==
    /\ cpc = "loop" /\ ~line1.some /\ line2.some
    /\ emitted' = Append(emitted, Col2(line2.val))
    /\ printed' = print(comm_config, printed, Col2(line2.val))
    /\ \E n2 \in {next_line(comm_config, content2, next2)} :
          line2' = n2.item /\ next2' = n2.n
    /\ UNCHANGED <<line1, next1, cpc>>
    /\ CommUnchanged

\* The loop ends when both are None: Ok(()).
CommReturn ==
    /\ cpc = "loop" /\ ~line1.some /\ ~line2.some
    /\ cpc' = "done"
    /\ UNCHANGED <<next1, next2, line1, line2, emitted, printed>>
    /\ CommUnchanged

NextComm ==
    \/ CommFirstLines
    \/ CommEqual
    \/ CommLess
    \/ CommGreater
    \/ CommRest1
    \/ CommRest2
    \/ CommReturn

SpecComm == InitComm /\ [][NextComm]_vars

\* ---------------------------------------------------- the contract's side
\* The lines print was called with for the given columns, in order.
EmittedIn(tags) ==
    LET kept == SelectSeq(emitted, LAMBDA c : c.tag \in tags)
    IN  [k \in DOMAIN kept |-> kept[k].val]

\* C30: when the loop has ended, the lines of columns 1 and 3 are as many as
\* the lines of file 1 and those of columns 2 and 3 as many as the lines of
\* file 2: every line of both files has been taken exactly once.
C30_EveryLineConsumedOnce ==
    cpc = "done" =>
        /\ Len(EmittedIn({"Col1", "Col3"})) = Len(content1)
        /\ Len(EmittedIn({"Col2", "Col3"})) = Len(content2)

====
